---- MODULE Spec2Model ----
(***************************************************************************)
(* Model of the silver normalisation pipeline and of the upsert engine of  *)
(* retail_pricing (silver_utils.py, etl_script.py).                        *)
(*                                                                         *)
(* A pandas cell is a record [k, n, s]: its Python type k, its number n    *)
(* and its text s.  None and NaN are two different cells: the code tests   *)
(* "is None" and NaN passes that test.  A table is a sequence of column    *)
(* names and a sequence of rows; a row gives a cell to every column name   *)
(* of AllCols, None where the table has no such column.                    *)
(***************************************************************************)
EXTENDS Integers, Sequences, FiniteSets, TLC

VARIABLES
    tbl,       \* pipeline: the table to_silver is working on
    pc,        \* pipeline: position inside to_silver
    runNo,     \* pipeline: 1 = first run, 2 = second run on the first run's output
    tblIn,     \* pipeline: the pre-silver table given to the first run
    firstOut,  \* pipeline: the output of the first run
    effIn,     \* pipeline: the table compute_effective_price last received
    current,   \* store: blob current.csv of the partition, [exists, rows]
    audit,     \* store: blobs run_{ingest_run_id}.csv of the partition
    ncalls,    \* number of upsert_to_silver calls made so far
    last,      \* the last upsert_to_silver call: [run, fail, outcome]
    maxSeen,   \* history: greatest parsable captured_at submitted per id text
    badSeen,   \* history: some submitted row had an unparsable captured_at
    call,      \* the last call of a helper function: [op, cols, out]
    blobs,     \* concurrent runs: the silver blobs, by blob name
    blobs0,    \* concurrent runs: the blobs before the runs began
    procs,     \* concurrent runs: each run's arguments, position and locals
    http,      \* Walmart pull: pending request_items calls, requests sent, items
    ebay,      \* eBay pull: clock, token cache, headers and requests of a call
    etl        \* orchestrated run: statement reached, frames, stages run, views

vars == <<tbl, pc, runNo, tblIn, firstOut, effIn,
          current, audit, ncalls, last, maxSeen, badSeen, call,
          blobs, blobs0, procs, http, ebay, etl>>
pipeVars == <<tbl, pc, runNo, tblIn, firstOut, effIn>>
storeVars == <<current, audit, ncalls, last, maxSeen, badSeen>>
auxVars == <<call, blobs, blobs0, procs, http, ebay, etl>>

----------------------------------------------------------------------------
(* Bounds *)

MaxRows == 2
MaxTs == 2
MaxCalls == 2
MaxBatch == 2

----------------------------------------------------------------------------
(* Cells *)

None == [k |-> "none", n |-> 0, s |-> ""]
NaN == [k |-> "nan", n |-> 0, s |-> ""]
PyInt(x) == [k |-> "int", n |-> x, s |-> ""]
Num(x) == [k |-> "num", n |-> x, s |-> ""]
Str(x) == [k |-> "str", n |-> 0, s |-> x]
Bool(b) == [k |-> "bool", n |-> IF b THEN 1 ELSE 0, s |-> ""]
\* the str "2024-01-01T00:00:0nZ" (instant n) and the str "2024-01-0n" (day n)
Ts(x) == [k |-> "ts", n |-> x, s |-> ""]
Date(x) == [k |-> "date", n |-> x, s |-> ""]

IsNull(v) == v.k \in {"none", "nan"}
IsText(v) == v.k \in {"str", "ts", "date"}

SILVER_COLS ==
    << "snapshot_date", "captured_at", "retailer_id", "native_item_id", "upc",
       "title_raw", "brand_raw", "model_raw", "category_raw_path", "product_url",
       "currency", "price_current", "price_regular", "msrp",
       "price_regular_chosen", "regular_price_source",
       "shipping_cost", "landed_price",
       "promo_flag", "promo_detect_method", "discount_depth",
       "in_stock_flag", "availability_message",
       "rating_avg", "rating_count",
       "source_endpoint", "ingest_run_id", "ingest_status" >>

SeqRange(q) == {q[i] : i \in 1..Len(q)}
SilverSet == SeqRange(SILVER_COLS)
\* one column that is not a silver column stands for a raw table's extras
AllCols == SilverSet \cup {"extra_col"}

HasCol(df, c) == \E i \in 1..Len(df.cols) : df.cols[i] = c
Col(df, c) == [i \in 1..Len(df.rows) |-> df.rows[i][c]]

\* df[c] = vals: an absent column is appended
SetCol(df, c, vals) ==
    [cols |-> IF HasCol(df, c) THEN df.cols ELSE Append(df.cols, c),
     rows |-> [i \in 1..Len(df.rows) |-> [df.rows[i] EXCEPT ![c] = vals[i]]]]

Const(df, v) == [i \in 1..Len(df.rows) |-> v]

\* pd.DataFrame(columns=SILVER_COLS)
EmptySilver == [cols |-> SILVER_COLS, rows |-> << >>]

\* The dtype pandas gives a column built from Python objects (Series.map,
\* Series.apply, a list): floats or ints together with None make a float64
\* column, in which None is NaN and an int is a float; a column of None only
\* stays an object column of None.
Infer(vals) ==
    LET ks == {vals[i].k : i \in DOMAIN vals}
    IN  IF ks \subseteq {"int", "num", "nan", "none"}
           /\ ks \cap {"int", "num", "nan"} # {}
           /\ ks \cap {"num", "nan", "none"} # {}
        THEN [i \in DOMAIN vals |->
                 CASE vals[i].k = "none" -> NaN
                   [] vals[i].k = "int" -> Num(vals[i].n)
                   [] OTHER -> vals[i]]
        ELSE vals

----------------------------------------------------------------------------
(* Text functions on the strings of the model *)

\* str(x)
PyStr(v) ==
    CASE v.k = "none" -> "None"
      [] v.k = "nan" -> "nan"
      [] v.k = "int" -> ToString(v.n)
      [] v.k = "num" -> ToString(v.n) \o ".0"
      [] v.k = "bool" -> IF v.n = 1 THEN "True" ELSE "False"
      [] v.k = "ts" -> "2024-01-01T00:00:0" \o ToString(v.n) \o "Z"
      [] v.k = "date" -> "2024-01-0" \o ToString(v.n)
      [] OTHER -> v.s

\* Series.astype(str): every cell becomes a str
AsStr(v) == IF IsText(v) THEN v ELSE Str(PyStr(v))

\* str.strip()
StripText(s) ==
    CASE s = " Acme  Co " -> "Acme  Co"
      [] s = "  " -> ""
      [] s = " 80 " -> "80"
      [] OTHER -> s
Strip(v) == IF v.k = "str" THEN Str(StripText(v.s)) ELSE v

\* re.sub(r"\s+", " ", s)
CollapseWsText(s) ==
    CASE s = "Acme  Co" -> "Acme Co"
      [] s = " Acme  Co " -> " Acme Co "
      [] s = "  " -> " "
      [] s = "A >  > B" -> "A > > B"
      [] OTHER -> s
CollapseWs(v) == IF v.k = "str" THEN Str(CollapseWsText(v.s)) ELSE v

\* re.sub(r"\s*[/|>]\s*", " > ", s)
DelimText(s) ==
    CASE s = "A/B" -> "A > B"
      [] s = "A|B" -> "A > B"
      [] s = "A > B" -> "A > B"
      [] s = "A>>B" -> "A >  > B"
      [] s = "A > > B" -> "A >  > B"
      [] s = "/A/B/" -> " > A > B > "
      [] OTHER -> s
\* str.strip(" >")
StripSepText(s) ==
    CASE s = " > A > B > " -> "A > B"
      [] OTHER -> s

\* str.upper()
UpperText(s) ==
    CASE s = "usd" -> "USD"
      [] s = "us$" -> "US$"
      [] s = "None" -> "NONE"
      [] s = "nan" -> "NAN"
      [] OTHER -> s

\* float(s) and int(s) on the numerals of the model
FloatTexts ==
    ("80" :> 80) @@ ("$80" :> 80) @@ ("80.0" :> 80) @@ ("100" :> 100)
    @@ ("7" :> 7) @@ ("07" :> 7) @@ ("5" :> 5)
    \* the two prices of the Walmart scenario, in hundredths
    @@ ("19.99" :> 1999) @@ ("24.99" :> 2499)
    @@ ("-5" :> -5)
IntTexts == ("80" :> 80) @@ ("100" :> 100) @@ ("7" :> 7) @@ ("07" :> 7) @@ ("5" :> 5)
\* s.replace(",", "").replace("$", "")
UnmoneyText(s) == IF s = "$80" THEN "80" ELSE s
\* s.replace("+", "").replace(",", "")
UnplusText(s) == IF s = "5+" THEN "5" ELSE s

----------------------------------------------------------------------------
(* Coercers and pricing helpers *)

_to_float(x) ==
    CASE x.k = "none" -> None
      [] x.k = "int" -> Num(x.n)
      [] x.k = "num" -> x
      [] x.k = "nan" -> NaN
      [] x.k = "str" ->
            LET s == UnmoneyText(StripText(x.s))
            IN  IF s \in DOMAIN FloatTexts THEN Num(FloatTexts[s])
                ELSE IF s = "nan" THEN NaN ELSE None
      [] OTHER -> None

_to_int(x) ==
    CASE x.k = "none" -> None
      [] x.k = "int" -> x
      [] x.k = "str" ->
            LET s == StripText(UnplusText(x.s))
            IN  IF s \in DOMAIN IntTexts THEN PyInt(IntTexts[s]) ELSE None
      \* int("80.0"), int("nan"), int("True") raise
      [] OTHER -> None

_to_bool(x) ==
    IF x.k = "none" THEN None
    ELSE LET s == PyStr(Strip(x))
         IN  IF s \in {"1", "true", "True", "t", "y", "yes"} THEN Bool(TRUE)
             ELSE IF s \in {"0", "false", "False", "f", "n", "no"} THEN Bool(FALSE)
             ELSE None

_choose_regular(explicit_regular, msrp) ==
    IF explicit_regular.k # "none" THEN <<explicit_regular, Str("explicit_regular")>>
    ELSE IF msrp.k # "none" THEN <<msrp, Str("msrp")>>
    ELSE <<None, Str("unknown")>>

\* float comparisons: every comparison with NaN is false
FLe(a, b) == a.k = "num" /\ b.k = "num" /\ a.n <= b.n
FLt(a, b) == a.k = "num" /\ b.k = "num" /\ a.n < b.n
\* price_current <= 0.95 * chosen_regular
FLe95(a, b) == a.k = "num" /\ b.k = "num" /\ 100 * a.n <= 95 * b.n
\* (chosen_regular - price_current)/chosen_regular, in thousandths
Depth(cur, reg) == Num(((reg.n - cur.n) * 1000) \div reg.n)

_promo_and_depth(price_current, chosen_regular, explicit_promo) ==
    IF price_current.k = "none" \/ chosen_regular.k = "none"
       \/ FLe(chosen_regular, Num(0))
    THEN <<Bool(explicit_promo),
           IF explicit_promo THEN Str("explicit") ELSE Str("none"), None>>
    ELSE IF explicit_promo /\ FLt(price_current, chosen_regular)
    THEN <<Bool(TRUE), Str("explicit"), Depth(price_current, chosen_regular)>>
    ELSE IF FLe95(price_current, chosen_regular)
    THEN <<Bool(TRUE), Str("heuristic_regular"), Depth(price_current, chosen_regular)>>
    ELSE <<Bool(FALSE), Str("none"), Num(0)>>

\* "shipping_cost or 0.0": None and 0.0 are falsy, NaN is truthy
FAdd(a, b) == IF a.k = "num" /\ b.k = "num" THEN Num(a.n + b.n) ELSE NaN
_landed(price_current, shipping_cost) ==
    IF price_current.k = "none" THEN None
    ELSE FAdd(price_current,
              IF shipping_cost.k = "none" THEN Num(0) ELSE shipping_cost)

----------------------------------------------------------------------------
(* Normalisation and schema: the steps of the silver transform pipeline *)

standardize_brand_title(df) ==
    IF Len(df.rows) = 0 THEN EmptySilver
    ELSE LET tidy(v) == CollapseWs(Strip(AsStr(v)))
             a == IF HasCol(df, "brand_raw")
                  THEN SetCol(df, "brand_raw",
                          [i \in 1..Len(df.rows) |-> tidy(df.rows[i]["brand_raw"])])
                  ELSE df
         IN  IF HasCol(a, "title_raw")
             THEN SetCol(a, "title_raw",
                     [i \in 1..Len(a.rows) |-> tidy(a.rows[i]["title_raw"])])
             ELSE a

map_categories(df) ==
    IF Len(df.rows) = 0 THEN EmptySilver
    ELSE IF HasCol(df, "category_raw_path")
    THEN LET norm(v) ==
                 LET w == AsStr(v)
                 IN  IF w.k = "str"
                     THEN Str(StripSepText(CollapseWsText(DelimText(w.s))))
                     ELSE w
         IN  SetCol(df, "category_raw_path",
                [i \in 1..Len(df.rows) |-> norm(df.rows[i]["category_raw_path"])])
    ELSE df

symbol_to_code(s) ==
    CASE s \in {"$", "US$"} -> "USD"
      [] s = "£" -> "GBP"
      [] s = "€" -> "EUR"
      [] s \in {"C$", "CA$"} -> "CAD"
      [] s \in {"A$", "AU$"} -> "AUD"
      [] s = "¥" -> "JPY"
      [] s = "₹" -> "INR"
      [] s = "₩" -> "KRW"
      [] s = "₽" -> "RUB"
      [] s = "HK$" -> "HKD"
      [] s = "NT$" -> "TWD"
      [] s = "₫" -> "VND"
      [] s = "R$" -> "BRL"
      [] s = "₱" -> "PHP"
      [] s = "₦" -> "NGN"
      [] s = "CHF" -> "CHF"
      [] s \in {"MX$", "MXN"} -> "MXN"
      [] OTHER -> s

normalize_currency(df) ==
    IF Len(df.rows) = 0 THEN EmptySilver
    ELSE IF HasCol(df, "currency")
    THEN LET code(v) ==
                 LET w == Strip(AsStr(v))
                 IN  IF w.k = "str" THEN Str(UpperText(symbol_to_code(w.s))) ELSE w
         IN  SetCol(df, "currency",
                [i \in 1..Len(df.rows) |-> code(df.rows[i]["currency"])])
    ELSE SetCol(df, "currency", Const(df, None))

\* df[c] = df[c].map(f) for each column of cs that the table has
MapCols(df, cs, which) ==
    LET f(v) == IF which = "float" THEN _to_float(v) ELSE _to_int(v)
        hit == {c \in SeqRange(cs) : HasCol(df, c)}
        new == [c \in hit |-> Infer([i \in 1..Len(df.rows) |-> f(df.rows[i][c])])]
    IN  [cols |-> df.cols,
         rows |-> [i \in 1..Len(df.rows) |->
                     [c \in AllCols |-> IF c \in hit THEN new[c][i]
                                        ELSE df.rows[i][c]]]]

UnitCols ==
    << "price_current", "price_regular", "msrp", "shipping_cost", "rating_avg",
       "discount_depth", "landed_price" >>

normalize_units(df) ==
    IF Len(df.rows) = 0 THEN EmptySilver
    ELSE MapCols(MapCols(df, UnitCols, "float"), <<"rating_count">>, "int")

\* for c in cs: if c not in df.columns: df[c] = None
\* (a row already holds None in every column the table does not have)
EnsureCols(df, cs) ==
    [cols |-> df.cols \o SelectSeq(cs, LAMBDA c : ~HasCol(df, c)),
     rows |-> df.rows]

\* df["promo_flag"].map(_to_bool).fillna(False), then bool(...)
PromoHint(v) == LET b == _to_bool(v) IN b.k = "bool" /\ b.n = 1

compute_effective_price(df) ==
    IF Len(df.rows) = 0 THEN EmptySilver
    ELSE LET N == 1..Len(df.rows)
             a == EnsureCols(df, <<"price_current", "price_regular", "msrp",
                                   "shipping_cost", "promo_flag">>)
             b == MapCols(a, <<"price_current", "price_regular", "msrp",
                               "shipping_cost">>, "float")
             hint == [i \in N |-> PromoHint(b.rows[i]["promo_flag"])]
             ch == [i \in N |-> _choose_regular(b.rows[i]["price_regular"],
                                                b.rows[i]["msrp"])]
             c == SetCol(SetCol(b, "price_regular_chosen",
                                Infer([i \in N |-> ch[i][1]])),
                         "regular_price_source", [i \in N |-> ch[i][2]])
             d == SetCol(c, "landed_price",
                     Infer([i \in N |-> _landed(c.rows[i]["price_current"],
                                                c.rows[i]["shipping_cost"])]))
             pr == [i \in N |-> _promo_and_depth(d.rows[i]["price_current"],
                                                 d.rows[i]["price_regular_chosen"],
                                                 hint[i])]
         IN  SetCol(SetCol(SetCol(d, "promo_flag", [i \in N |-> pr[i][1]]),
                           "promo_detect_method", [i \in N |-> pr[i][2]]),
                    "discount_depth", Infer([i \in N |-> pr[i][3]]))

StrCols ==
    << "native_item_id", "upc", "title_raw", "brand_raw", "model_raw",
       "category_raw_path", "product_url", "currency",
       "availability_message", "source_endpoint", "regular_price_source",
       "ingest_status" >>

StripCols(df, cs) ==
    LET hit == {c \in SeqRange(cs) : HasCol(df, c)}
    IN  [cols |-> df.cols,
         rows |-> [i \in 1..Len(df.rows) |->
                     [c \in AllCols |-> IF c \in hit THEN Strip(AsStr(df.rows[i][c]))
                                        ELSE df.rows[i][c]]]]

\* pd.to_datetime(x, errors="coerce").dt.date.astype("string")
DateCell(v) == IF v.k = "date" THEN v ELSE IF v.k = "ts" THEN Date(1) ELSE NaN
\* pd.to_datetime(x, errors="coerce").dt.strftime("%Y-%m-%dT%H:%M:%SZ").astype("string")
StampCell(v) == IF v.k = "ts" THEN v ELSE IF v.k = "date" THEN Ts(0) ELSE NaN

\* df[SILVER_COLS]
SelectSilver(df) ==
    [cols |-> SILVER_COLS,
     rows |-> [i \in 1..Len(df.rows) |->
                 [c \in AllCols |-> IF c \in SilverSet THEN df.rows[i][c] ELSE None]]]

KeepAllColsMutant(df) == df

Reorder(df) == SelectSilver(df)

validate_schema(df, today, now) ==
    IF Len(df.rows) = 0 THEN EmptySilver
    ELSE LET a == StripCols(df, StrCols)
             b == normalize_currency(a)
             c == normalize_units(b)
             d == MapCols(c, <<"rating_count">>, "int")
             e == IF HasCol(d, "snapshot_date")
                  THEN SetCol(d, "snapshot_date",
                          [i \in 1..Len(d.rows) |-> DateCell(d.rows[i]["snapshot_date"])])
                  ELSE SetCol(d, "snapshot_date", Const(d, today))
             f == IF HasCol(e, "captured_at")
                  THEN SetCol(e, "captured_at",
                          [i \in 1..Len(e.rows) |-> StampCell(e.rows[i]["captured_at"])])
                  ELSE SetCol(e, "captured_at", Const(e, now))
         IN  Reorder(EnsureCols(f, SILVER_COLS))

\* str(x or "").strip(): None and "" are falsy
OrEmpty(v) ==
    IF v.k = "none" \/ (v.k = "str" /\ v.s = "") THEN "" ELSE StripText(PyStr(v))

\* str(uuid.uuid5(uuid.NAMESPACE_URL, name)): a fixed injective function of name
uuid5(name) == Str("uuid5:" \o name)

DeriveComboFirstMutant(row, rnd) ==
    LET brand == OrEmpty(row["brand_raw"])
        title == OrEmpty(row["title_raw"])
    IN  IF brand # "" \/ title # "" THEN uuid5(brand \o "|" \o title)
        ELSE Str(rnd)

_derive(row, rnd) ==
    LET url == OrEmpty(row["product_url"])
        brand == OrEmpty(row["brand_raw"])
        title == OrEmpty(row["title_raw"])
    IN  IF url # "" THEN uuid5(url)
        ELSE IF brand # "" \/ title # "" THEN uuid5(brand \o "|" \o title)
        ELSE Str(rnd)

\* isna() | (astype(str).str.strip() == "")
MaskMissing(v) == IsNull(v) \/ (v.k = "str" /\ StripText(v.s) = "")

\* rnd[i] is the uuid4 drawn for row i, should the row need one
make_silver_keys(df, rnd) ==
    IF Len(df.rows) = 0 THEN EmptySilver
    ELSE LET a == EnsureCols(df, <<"native_item_id">>)
         IN  SetCol(a, "native_item_id",
                [i \in 1..Len(a.rows) |->
                    AsStr(IF MaskMissing(a.rows[i]["native_item_id"])
                          THEN _derive(a.rows[i], rnd[i])
                          ELSE a.rows[i]["native_item_id"])])

\* to_silver, and lines 456-462 of upsert_to_silver: each step receives the
\* table the step before it returned
to_silver(df, today, now, rnd) ==
    IF Len(df.rows) = 0 THEN EmptySilver
    ELSE CHOOSE out \in
           {make_silver_keys(g, rnd) : g \in
             {validate_schema(f, today, now) : f \in
               {compute_effective_price(e) : e \in
                 {normalize_units(d) : d \in
                   {normalize_currency(c) : c \in
                     {map_categories(b) : b \in
                       {standardize_brand_title(df)}}}}}}} : TRUE

----------------------------------------------------------------------------
(* The pre-silver tables given to the pipeline *)

Today == Date(1)
NowSet == {Ts(n) : n \in 1..MaxTs}
Uuid4s == {"uuid4-a", "uuid4-b"}

BaseRow ==
    [c \in AllCols |->
        CASE c = "snapshot_date" -> Date(1)
          [] c = "captured_at" -> Ts(1)
          [] c = "retailer_id" -> Str("walmart")
          [] c = "native_item_id" -> Str("ab")
          [] c = "title_raw" -> Str("Widget")
          [] c = "brand_raw" -> Str("Acme Co")
          [] c = "category_raw_path" -> Str("A > B")
          [] c = "product_url" -> Str("http://x/1")
          [] c = "currency" -> Str("USD")
          [] c = "price_current" -> Num(80)
          [] c = "price_regular" -> Num(100)
          [] c = "rating_count" -> PyInt(5)
          [] c = "source_endpoint" -> Str("pull")
          [] c = "ingest_run_id" -> Str("r0")
          [] c = "ingest_status" -> Str("ok")
          [] OTHER -> None]

PriceRows ==
    {[BaseRow EXCEPT !["price_current"] = c, !["price_regular"] = r,
                     !["msrp"] = m, !["promo_flag"] = h] :
        c \in {None, Num(80), Num(90), Num(98)}, r \in {None, Num(100)},
        m \in {None, Num(120)}, h \in {None, Bool(TRUE)}}

MessyRow ==
    [BaseRow EXCEPT !["brand_raw"] = Str(" Acme  Co "), !["currency"] = Str("$"),
                    !["category_raw_path"] = Str("A>>B"),
                    !["price_current"] = Str("$80"), !["rating_count"] = Str("5+")]
NullRow ==
    [BaseRow EXCEPT !["brand_raw"] = None, !["currency"] = None,
                    !["category_raw_path"] = None, !["native_item_id"] = None,
                    !["price_regular"] = Str("n/a"), !["captured_at"] = Str("garbage"),
                    !["snapshot_date"] = None, !["rating_count"] = None,
                    !["shipping_cost"] = Num(0), !["ingest_status"] = None]
BlankRow ==
    [BaseRow EXCEPT !["native_item_id"] = Str("  "), !["product_url"] = Str(""),
                    !["brand_raw"] = Str(""), !["title_raw"] = Str(""),
                    !["currency"] = Str("us$"), !["category_raw_path"] = Str("/A/B/")]
\* a row without an id and without a product_url
KeylessRow ==
    [BaseRow EXCEPT !["native_item_id"] = Str(""), !["product_url"] = None]
\* two rows without an id, with the same product_url and nothing else in common
UrlRowA == [BaseRow EXCEPT !["native_item_id"] = Str("")]
UrlRowB ==
    [BaseRow EXCEPT !["native_item_id"] = Str("  "), !["brand_raw"] = Str("Other"),
                    !["title_raw"] = Str("Gadget"), !["price_current"] = Num(98),
                    !["currency"] = Str("€")]
\* a row with negative amounts, one of them as text
NegativeRow ==
    [BaseRow EXCEPT !["price_current"] = Str("-5"), !["price_regular"] = None,
                    !["msrp"] = Num(-7), !["shipping_cost"] = Num(-3)]
TextRows == {MessyRow, NullRow, BlankRow, KeylessRow, UrlRowA, UrlRowB, NegativeRow}

SeqsUpTo(S, n) == UNION {[1..m -> S] : m \in 0..n}

PipeTables == {[cols |-> SILVER_COLS, rows |-> rs] :
                 rs \in SeqsUpTo(PriceRows \cup TextRows, MaxRows)}

\* column lists of raw or partly mapped tables
ShapeCols ==
    { SILVER_COLS,
      << >>,
      <<"extra_col", "price_current", "native_item_id">>,
      <<"promo_flag", "captured_at", "brand_raw", "currency", "snapshot_date",
        "discount_depth", "extra_col">>,
      <<"ingest_status", "price_regular_chosen", "msrp", "title_raw">> }

\* a row cut to the columns of the table; the extra column holds raw text
CutRow(r, cs) ==
    [c \in AllCols |->
        IF c \in SeqRange(cs)
        THEN (IF c = "extra_col" THEN Str("raw") ELSE r[c])
        ELSE None]

ShapeTables ==
    {[cols |-> cs, rows |-> [i \in DOMAIN rs |-> CutRow(rs[i], cs)]] :
        cs \in ShapeCols,
        rs \in SeqsUpTo({BaseRow} \cup TextRows, MaxRows)}

----------------------------------------------------------------------------
(* to_silver, one action for each of its steps *)

\* no helper function has been called
AuxIdle ==
    /\ call = [op |-> "none", cols |-> << >>, out |-> << >>]
    /\ blobs = << >>
    /\ blobs0 = << >>
    /\ procs = << >>
    /\ http = << >>
    /\ ebay = << >>
    /\ etl = << >>

StoreIdle ==
    /\ current = [exists |-> FALSE, rows |-> << >>]
    /\ audit = [r \in {"r1", "r2"} |-> [exists |-> FALSE, rows |-> << >>]]
    /\ ncalls = 0
    /\ last = [run |-> "", fail |-> "none", outcome |-> "none"]
    /\ maxSeen = [i \in {"7", "07", "ab"} |-> 0]
    /\ badSeen = FALSE

InitPipe ==
    /\ tblIn \in PipeTables
    /\ tbl = tblIn
    /\ pc = "start"
    /\ runNo = 1
    /\ firstOut = EmptySilver
    /\ effIn = EmptySilver
    /\ StoreIdle
    /\ AuxIdle

InitShape ==
    /\ tblIn \in ShapeTables
    /\ tbl = tblIn
    /\ pc = "start"
    /\ runNo = 1
    /\ firstOut = EmptySilver
    /\ effIn = EmptySilver
    /\ StoreIdle
    /\ AuxIdle

Step(from, to, out) ==
    /\ pc = from
    /\ Len(tbl.rows) > 0
    /\ tbl' = out
    /\ pc' = to
    /\ UNCHANGED <<runNo, tblIn, firstOut>>
    /\ UNCHANGED storeVars
    /\ UNCHANGED auxVars

ToSilverEmpty ==
    /\ pc = "start"
    /\ Len(tbl.rows) = 0
    /\ tbl' = EmptySilver
    /\ pc' = "done"
    /\ UNCHANGED <<runNo, tblIn, firstOut, effIn>>
    /\ UNCHANGED storeVars
    /\ UNCHANGED auxVars

DoStandardizeBrandTitle ==
    Step("start", "tidy", standardize_brand_title(tbl)) /\ UNCHANGED effIn

DoMapCategories ==
    Step("tidy", "category", map_categories(tbl)) /\ UNCHANGED effIn

DoNormalizeCurrency ==
    Step("category", "currency", normalize_currency(tbl)) /\ UNCHANGED effIn

DoNormalizeUnits ==
    Step("currency", "units", normalize_units(tbl)) /\ UNCHANGED effIn

DoComputeEffectivePrice ==
    Step("units", "effective", compute_effective_price(tbl)) /\ effIn' = tbl

DoValidateSchema ==
    \E now \in (IF HasCol(tbl, "captured_at") THEN {Ts(1)} ELSE NowSet) :
        Step("effective", "schema", validate_schema(tbl, Today, now))
        /\ UNCHANGED effIn

NeedsUuid4(df) ==
    \E i \in 1..Len(df.rows) :
        /\ MaskMissing(df.rows[i]["native_item_id"])
        /\ OrEmpty(df.rows[i]["product_url"]) = ""
        /\ OrEmpty(df.rows[i]["brand_raw"]) = ""
        /\ OrEmpty(df.rows[i]["title_raw"]) = ""

NoUuid4 == [i \in 1..(MaxRows + MaxBatch) |-> "uuid4-a"]

DoMakeSilverKeys ==
    \E rnd \in (IF NeedsUuid4(tbl) THEN [1..Len(tbl.rows) -> Uuid4s] ELSE {NoUuid4}) :
        Step("schema", "done", make_silver_keys(tbl, rnd)) /\ UNCHANGED effIn

\* the caller runs to_silver again, on the table the first run returned
Rerun ==
    /\ pc = "done"
    /\ runNo = 1
    /\ firstOut' = tbl
    /\ pc' = "start"
    /\ runNo' = 2
    /\ UNCHANGED <<tbl, tblIn, effIn>>
    /\ UNCHANGED storeVars
    /\ UNCHANGED auxVars

NextPipe ==
    \/ ToSilverEmpty
    \/ DoStandardizeBrandTitle
    \/ DoMapCategories
    \/ DoNormalizeCurrency
    \/ DoNormalizeUnits
    \/ DoComputeEffectivePrice
    \/ DoValidateSchema
    \/ DoMakeSilverKeys
    \/ Rerun

SpecPipe == InitPipe /\ [][NextPipe]_vars
SpecShape == InitShape /\ [][NextPipe]_vars

----------------------------------------------------------------------------
(* Finalize, CSV text, merge *)

_finalize(df, retailer_id, source_endpoint, ingest_run_id, today, now) ==
    LET N == 1..Len(df.rows)
        a == IF HasCol(df, "snapshot_date") THEN df
             ELSE SetCol(df, "snapshot_date", Const(df, today))
        b == IF HasCol(a, "captured_at") THEN a
             ELSE SetCol(a, "captured_at", Const(a, now))
        c == SetCol(SetCol(SetCol(b, "retailer_id", Const(b, Str(retailer_id))),
                           "source_endpoint", Const(b, Str(source_endpoint))),
                    "ingest_run_id", Const(b, Str(ingest_run_id)))
        d == IF HasCol(c, "ingest_status") THEN c
             ELSE SetCol(c, "ingest_status", Const(c, Str("ok")))
    IN  SelectSilver(EnsureCols(d, SILVER_COLS))

\* the texts pd.read_csv reads as a missing value
NaTexts == {"", "None", "nan", "NaN", "NA", "N/A", "n/a", "null", "NULL", "<NA>", "#N/A"}

\* DataFrame.to_csv: the text of a cell, with the class pd.read_csv's type
\* inference gives that text (n is the number a numeral denotes)
CsvToken(v) ==
    CASE IsNull(v) -> [k |-> "na", n |-> 0, s |-> ""]
      [] v.k = "int" -> [k |-> "int", n |-> v.n, s |-> ToString(v.n)]
      [] v.k = "num" -> [k |-> "flt", n |-> v.n, s |-> ToString(v.n) \o ".0"]
      [] v.k = "bool" -> [k |-> "bool", n |-> v.n, s |-> PyStr(v)]
      [] v.k = "str" ->
            IF v.s \in NaTexts THEN [k |-> "na", n |-> 0, s |-> v.s]
            ELSE IF v.s \in DOMAIN IntTexts
            THEN [k |-> "int", n |-> IntTexts[v.s], s |-> v.s]
            ELSE IF v.s \in {"True", "False"}
            THEN [k |-> "bool", n |-> IF v.s = "True" THEN 1 ELSE 0, s |-> v.s]
            ELSE v
      [] OTHER -> v

to_csv(df) ==
    [i \in 1..Len(df.rows) |-> [c \in AllCols |-> CsvToken(df.rows[i][c])]]

\* pd.read_csv: the dtype of a column is inferred from all of its texts
ReadColumn(toks) ==
    LET ks == {toks[i].k : i \in DOMAIN toks}
    IN  [i \in DOMAIN toks |->
            IF ks \subseteq {"int"} THEN PyInt(toks[i].n)
            ELSE IF ks \subseteq {"int", "flt", "na"} /\ ks # {"na"}
            THEN (IF toks[i].k = "na" THEN NaN ELSE Num(toks[i].n))
            ELSE IF ks \subseteq {"bool"} THEN Bool(toks[i].n = 1)
            ELSE IF toks[i].k = "na" THEN NaN
            ELSE IF toks[i].k \in {"ts", "date"} THEN toks[i]
            ELSE Str(toks[i].s)]

read_csv(text) ==
    LET colOf == [c \in AllCols |-> ReadColumn([i \in 1..Len(text) |-> text[i][c]])]
    IN  [cols |-> SILVER_COLS,
         rows |-> [i \in 1..Len(text) |-> [c \in AllCols |-> colOf[c][i]]]]

\* pd.concat([existing, incoming], ignore_index=True): an int64 column joined
\* to a float64 column is float64; joined to an object column it is object
PromoteColumn(vals) ==
    LET ks == {vals[i].k : i \in DOMAIN vals}
    IN  IF ks \subseteq {"int", "num", "nan"} /\ ks \cap {"num", "nan"} # {}
        THEN [i \in DOMAIN vals |->
                 IF vals[i].k = "int" THEN Num(vals[i].n) ELSE vals[i]]
        ELSE vals

concat(a, b) ==
    LET rs == a.rows \o b.rows
        colOf == [c \in AllCols |-> PromoteColumn([i \in 1..Len(rs) |-> rs[i][c]])]
    IN  [cols |-> a.cols,
         rows |-> [i \in 1..Len(rs) |-> [c \in AllCols |-> colOf[c][i]]]]

\* pd.to_datetime(captured_at, errors="coerce"): the instant, or NaT
NaT == -1
ParseTs(v) == IF v.k = "ts" THEN v.n ELSE NaT

\* DataFrame.sort_values(by=["_ts"], ascending=True): NaT last, equal keys in
\* their order in the table (the sort is stable on a table of up to 16 rows)
TsBeforeNaTFirstMutant(rows, i, j) ==
    LET a == ParseTs(rows[i]["captured_at"])
        b == ParseTs(rows[j]["captured_at"])
    IN  \/ a = NaT /\ b # NaT
        \/ a # NaT /\ b # NaT /\ a < b
        \/ a = b /\ i < j

TsBefore(rows, i, j) ==
    LET a == ParseTs(rows[i]["captured_at"])
        b == ParseTs(rows[j]["captured_at"])
    IN  \/ a # NaT /\ b = NaT
        \/ a # NaT /\ b # NaT /\ a < b
        \/ a = b /\ i < j

sort_values(rows) ==
    LET N == 1..Len(rows)
        pos == [i \in N |-> 1 + Cardinality({j \in N : TsBefore(rows, j, i)})]
    IN  [p \in N |-> rows[CHOOSE i \in N : pos[i] = p]]

\* two rows are duplicates when their key cells are the same Python object
\* value: 7 and "7" are not, two missing values are
KeyCellEq(a, b) == (IsNull(a) /\ IsNull(b)) \/ a = b

KeyEq(r1, r2, key_cols) == \A c \in key_cols : KeyCellEq(r1[c], r2[c])

\* DataFrame.drop_duplicates(subset=key_cols, keep="last")
drop_duplicates(rows, key_cols) ==
    LET N == 1..Len(rows)
        kept == {p \in N : ~ \E q \in N : q > p /\ KeyEq(rows[q], rows[p], key_cols)}
    IN  [k \in 1..Cardinality(kept) |->
            rows[CHOOSE p \in kept : Cardinality({q \in kept : q < p}) = k - 1]]

_merge_dedupe(existing, incoming, key_cols) ==
    LET base == IF Len(existing.rows) = 0 THEN incoming
                ELSE concat(existing, incoming)
    IN  [cols |-> SILVER_COLS,
         rows |-> CHOOSE out \in
                    {drop_duplicates(sorted, key_cols) :
                        sorted \in {sort_values(rs) : rs \in {base.rows}}} : TRUE]

----------------------------------------------------------------------------
(* upsert_to_silver on one partition of one retailer *)

Runs == {"r1", "r2"}
KeyCols == {"retailer_id", "native_item_id"}
NoBlob == [exists |-> FALSE, rows |-> << >>]
Blob(text) == [exists |-> TRUE, rows |-> text]

UpsertIds == {"7", "07", "ab"}
UpsertStamps == {Ts(n) : n \in 1..MaxTs} \cup {Str("garbage")}

\* pre-silver rows of one snapshot date
UpsertRows ==
    {[BaseRow EXCEPT !["native_item_id"] = Str(i), !["captured_at"] = t,
                     !["upc"] = Str("u1"), !["model_raw"] = Str("m1"),
                     !["availability_message"] = Str("in stock")] :
        i \in UpsertIds, t \in UpsertStamps}

\* the storage call that fails during the call, if any
CurrentFails == {"exists", "download", "current_write"}
FailModes == {"none", "audit_write"} \cup CurrentFails

Submitted(part) ==
    [i \in UpsertIds |->
        LET ts == {ParseTs(part.rows[j]["captured_at"]) :
                      j \in {j \in 1..Len(part.rows) :
                                part.rows[j]["native_item_id"] = Str(i)}}
            m == CHOOSE x \in ts \cup {0} : \A y \in ts \cup {0} : y <= x
        IN  IF m > maxSeen[i] THEN m ELSE maxSeen[i]]

Batches == SeqsUpTo(UpsertRows, MaxBatch)

\* lines 456-463: the pipeline and the finalize step on the incoming table
\* (one snapshot date, so the loop of line 467 finds one partition)
Finalized(batch, run) ==
    CHOOSE part \in
        {_finalize(piped, "walmart", "pull", run, Today, Ts(1)) : piped \in
            {to_silver([cols |-> SILVER_COLS, rows |-> batch],
                       Today, Ts(1), NoUuid4)}} : TRUE

\* Finalized, computed once for every incoming table of the model
Parts == [batch \in Batches, run \in Runs |-> Finalized(batch, run)]

Upsert(batch, run, fail) ==
    \E part \in {Parts[batch, run]} :
    \* _blob_exists answers False when get_blob_properties raises
    \E found \in {current.exists /\ fail # "exists"} :
    \E existing \in {IF found THEN read_csv(current.rows) ELSE EmptySilver} :
    \E merged \in {_merge_dedupe(existing, part, KeyCols)} :
    \E raised \in {\/ fail \in {"audit_write", "current_write"}
                   \/ fail = "download" /\ found} :
        /\ fail = "download" => current.exists
        /\ ncalls' = ncalls + 1
        /\ UNCHANGED pipeVars
        /\ UNCHANGED auxVars
        /\ IF Len(batch) = 0
           THEN /\ fail = "none"
                /\ last' = [run |-> run, fail |-> fail, outcome |-> "empty"]
                /\ UNCHANGED <<current, audit, maxSeen, badSeen>>
           ELSE /\ last' = [run |-> run, fail |-> fail,
                            outcome |-> IF raised THEN "raised" ELSE "ok"]
                /\ audit' = IF fail = "audit_write" THEN audit
                            ELSE [audit EXCEPT ![run] = Blob(to_csv(part))]
                /\ current' = IF raised THEN current ELSE Blob(to_csv(merged))
                /\ maxSeen' = IF raised THEN maxSeen ELSE Submitted(part)
                /\ badSeen' = IF raised THEN badSeen
                              ELSE \/ badSeen
                                   \/ \E j \in 1..Len(part.rows) :
                                         ParseTs(part.rows[j]["captured_at"]) = NaT

UpsertCall ==
    /\ ncalls < MaxCalls
    /\ \E batch \in Batches, run \in Runs : Upsert(batch, run, "none")

\* a call during which one storage call fails (its table has one row)
UpsertFault ==
    /\ ncalls < MaxCalls
    /\ \E batch \in {b \in Batches : Len(b) = 1}, run \in Runs,
          fail \in FailModes \ {"none"} :
          Upsert(batch, run, fail)

InitUpsert ==
    /\ tblIn = EmptySilver
    /\ tbl = EmptySilver
    /\ pc = "idle"
    /\ runNo = 1
    /\ firstOut = EmptySilver
    /\ effIn = EmptySilver
    /\ StoreIdle
    /\ AuxIdle

NextUpsert == UpsertCall
NextFaulty == UpsertCall \/ UpsertFault

\* the blob store works
SpecUpsert == InitUpsert /\ [][NextUpsert]_vars
\* storage calls may fail
SpecFaulty == InitUpsert /\ [][NextFaulty]_vars

----------------------------------------------------------------------------
(* Claims about the upsert engine *)

KeyText(r) == <<r["retailer_id"].s, r["native_item_id"].s>>
RowId(r) == <<r["retailer_id"].s, r["native_item_id"].s, r["captured_at"]>>
IdBag(rows) ==
    [x \in {RowId(rows[i]) : i \in 1..Len(rows)} |->
        Cardinality({i \in 1..Len(rows) : RowId(rows[i]) = x})]
\* the call of this step returned normally after writing both blobs
CallOk == ncalls' = ncalls + 1 /\ last'.outcome = "ok"

\* C1: after any sequence of upserts to one partition, run one after another,
\* the stored current view holds at most one row per
\* (retailer_id, native_item_id), whatever the id, ids of digits included.
C1_OneRowPerKey ==
    \A i, j \in 1..Len(current.rows) :
        i < j => KeyText(current.rows[i]) # KeyText(current.rows[j])

\* C2: when every submitted row has a parsable captured_at, the row the
\* current view keeps for a key carries the greatest captured_at ever
\* submitted for that key.
C2_LatestWins ==
    ~badSeen =>
        \A i \in 1..Len(current.rows) :
            current.rows[i]["captured_at"]
                = Ts(maxSeen[current.rows[i]["native_item_id"].s])

\* C3: upserting a row (same key, same captured_at) that the current view
\* already holds leaves the rows of the current view as they were: one copy.
C3_SameRowOnce ==
    [][ ( /\ CallOk
          /\ Len(audit'[last'.run].rows) = 1
          /\ \E i \in 1..Len(current.rows) :
                RowId(current.rows[i]) = RowId(audit'[last'.run].rows[1]) )
        => IdBag(current'.rows) = IdBag(current.rows) ]_vars

\* C4: once the audit blob of a run id is written, no later upsert changes
\* its content, a call with the same run id included.
C4_AuditWriteOnce ==
    [][ \A r \in Runs : audit[r].exists => audit'[r] = audit[r] ]_vars

\* C5: an upsert deletes no key of the current view, keeps the rows of the
\* keys the incoming table does not hold, and drops an existing row only for
\* a row of the same key with a newer captured_at.
C5_NothingDeleted ==
    [][ CallOk =>
        LET old == current.rows
            new == current'.rows
            inc == audit'[last'.run].rows
            kept(i) == \E j \in 1..Len(new) : new[j] = old[i]
        IN  /\ \A i \in 1..Len(old) :
                  \E j \in 1..Len(new) : KeyText(new[j]) = KeyText(old[i])
            /\ \A i \in 1..Len(old) :
                  (\A j \in 1..Len(inc) : KeyText(inc[j]) # KeyText(old[i]))
                      => kept(i)
            /\ \A i \in 1..Len(old) :
                  ~kept(i) =>
                      \E j \in 1..Len(new) :
                          /\ KeyText(new[j]) = KeyText(old[i])
                          /\ ParseTs(old[i]["captured_at"]) # NaT
                          /\ ParseTs(new[j]["captured_at"])
                                > ParseTs(old[i]["captured_at"]) ]_vars

\* C6: a storage failure while the call checks for, reads or writes the
\* current view is surfaced to the caller and leaves the stored current view
\* as it was; a failed existence check is not taken for an absent view.
C6_FailureSurfaced ==
    [][ (ncalls' = ncalls + 1 /\ last'.fail \in CurrentFails /\ current.exists)
        => (last'.outcome = "raised" /\ current' = current) ]_vars

----------------------------------------------------------------------------
(* Claims about the silver transform pipeline *)

SameCell(a, b) == (IsNull(a) /\ IsNull(b)) \/ a = b
SameTable(a, b) ==
    /\ a.cols = b.cols
    /\ Len(a.rows) = Len(b.rows)
    /\ \A i \in 1..Len(a.rows) : \A c \in AllCols : SameCell(a.rows[i][c], b.rows[i][c])

\* C7: to_silver run on its own output returns that output: every column of
\* every row is unchanged by the second run.
C7_Idempotent ==
    (pc = "done" /\ runNo = 2) => SameTable(tbl, firstOut)

C9_PromoRule ==
    pc = "effective" =>
        \A i \in 1..Len(tbl.rows) :
            LET cur == tbl.rows[i]["price_current"]
                reg == tbl.rows[i]["price_regular_chosen"]
                hint == PromoHint(effIn.rows[i]["promo_flag"])
                flag == tbl.rows[i]["promo_flag"]
                how == tbl.rows[i]["promo_detect_method"]
                depth == tbl.rows[i]["discount_depth"]
            IN  IF IsNull(cur) \/ IsNull(reg) \/ reg.n <= 0
                THEN /\ flag = Bool(hint)
                     /\ how = (IF hint THEN Str("explicit") ELSE Str("none"))
                     /\ IsNull(depth)
                ELSE IF hint /\ cur.n < reg.n
                THEN flag = Bool(TRUE) /\ how = Str("explicit")
                     /\ depth = Depth(cur, reg)
                ELSE IF 100 * cur.n <= 95 * reg.n
                THEN flag = Bool(TRUE) /\ how = Str("heuristic_regular")
                     /\ depth = Depth(cur, reg)
                ELSE flag = Bool(FALSE) /\ how = Str("none") /\ depth = Num(0)

\* C10: the effective-price step chooses the explicit regular price
\* ('explicit_regular') when the row has one, else msrp ('msrp') when the row
\* has one, else null ('unknown'); a missing, null or unparsable price is absent.
C10_ChooseRegular ==
    pc = "effective" =>
        \A i \in 1..Len(tbl.rows) :
            LET reg == _to_float(effIn.rows[i]["price_regular"])
                ms == _to_float(effIn.rows[i]["msrp"])
                chosen == tbl.rows[i]["price_regular_chosen"]
                src == tbl.rows[i]["regular_price_source"]
            IN  IF reg.k = "num"
                THEN chosen = reg /\ src = Str("explicit_regular")
                ELSE IF ms.k = "num"
                THEN chosen = ms /\ src = Str("msrp")
                ELSE IsNull(chosen) /\ src = Str("unknown")

\* C11: for every row the effective-price step returns, landed_price is
\* price_current plus shipping_cost, a missing shipping_cost counting as 0,
\* and landed_price is null exactly when price_current is null.
C11_Landed ==
    pc = "effective" =>
        \A i \in 1..Len(tbl.rows) :
            LET cur == tbl.rows[i]["price_current"]
                ship == tbl.rows[i]["shipping_cost"]
                landed == tbl.rows[i]["landed_price"]
            IN  /\ IsNull(landed) <=> IsNull(cur)
                /\ ~IsNull(cur) =>
                      landed = Num(cur.n + (IF IsNull(ship) THEN 0 ELSE ship.n))

\* C12: after the pipeline no row has been dropped, every row has a
\* native_item_id that is neither null nor blank, and every row that entered
\* with a null or blank native_item_id carries an identifier the
\* key-derivation fallback chain produces for it.
C12_KeyDerived ==
    (pc = "done" /\ runNo = 1) =>
        /\ Len(tbl.rows) = Len(tblIn.rows)
        /\ \A i \in 1..Len(tbl.rows) :
              LET id == tbl.rows[i]["native_item_id"]
              IN  /\ id.k = "str"
                  /\ StripText(id.s) # ""
                  /\ MaskMissing(tblIn.rows[i]["native_item_id"]) =>
                        \E u \in Uuid4s : id = _derive(tbl.rows[i], u)

\* C13: a row whose native_item_id is blank gets the namespace hash of
\* product_url when product_url is present, else the namespace hash of
\* brand_raw + '|' + title_raw when that is non-empty, else a random
\* identifier; a null product_url, brand_raw or title_raw is not present.
C13_FallbackChain ==
    (pc = "done" /\ runNo = 1) =>
        \A i \in 1..Len(tbl.rows) :
            LET in == tblIn.rows[i]
                id == tbl.rows[i]["native_item_id"]
                present(c) == ~IsNull(in[c]) /\ StripText(PyStr(in[c])) # ""
                txt(c) == IF present(c) THEN tbl.rows[i][c].s ELSE ""
            IN  (in["native_item_id"].k = "str"
                    /\ StripText(in["native_item_id"].s) = "") =>
                IF present("product_url") THEN id = uuid5(txt("product_url"))
                ELSE IF txt("brand_raw") # "" \/ txt("title_raw") # ""
                THEN id = uuid5(txt("brand_raw") \o "|" \o txt("title_raw"))
                ELSE id \in {Str(u) : u \in Uuid4s}

NeedsKey(row) ==
    row["native_item_id"].k = "str" /\ StripText(row["native_item_id"].s) = ""
HasUrl(row) ==
    row["product_url"].k = "str" /\ StripText(row["product_url"].s) # ""

C15_Currency ==
    (pc = "currency" /\ runNo = 1) =>
        \A i \in 1..Len(tbl.rows) :
            LET in == tblIn.rows[i]["currency"]
                out == tbl.rows[i]["currency"]
                txt == StripText(PyStr(in))
            IN  IF ~HasCol(tblIn, "currency") \/ IsNull(in) \/ txt = ""
                THEN out = Str("USD")
                ELSE /\ txt = "$" => out = Str("USD")
                     /\ txt = "€" => out = Str("EUR")
                     /\ out.k = "str" /\ UpperText(out.s) = out.s

\* C16: after schema validation every row has a snapshot_date and a
\* captured_at: an unparsable snapshot_date has been replaced by the current
\* date and an unparsable captured_at by the current UTC time, and no row is
\* lost.
C16_DatesPopulated ==
    (pc = "schema" /\ runNo = 1) =>
        /\ Len(tbl.rows) = Len(tblIn.rows)
        /\ \A i \in 1..Len(tbl.rows) :
              LET d == tbl.rows[i]["snapshot_date"]
                  t == tbl.rows[i]["captured_at"]
              IN  /\ d.k = "date"
                  /\ t.k = "ts"
                  /\ tblIn.rows[i]["snapshot_date"].k \notin {"date", "ts"} => d = Today
                  /\ tblIn.rows[i]["captured_at"].k \notin {"date", "ts"} => t \in NowSet

----------------------------------------------------------------------------
(* The pipeline of upsert_to_silver followed by its finalize step *)

Retailers == {"walmart", "ebay"}
Endpoint == "api"

\* line 463: df = _finalize(df, retailer_id, source_endpoint, ingest_run_id)
FinalizeWith(retailer_id, ingest_run_id) ==
    /\ pc = "done"
    /\ runNo = 1
    /\ Len(tblIn.rows) > 0
    /\ tbl' = _finalize(tbl, retailer_id, Endpoint, ingest_run_id, Today, Ts(1))
    /\ pc' = "final"
    /\ UNCHANGED <<runNo, tblIn, firstOut, effIn>>
    /\ UNCHANGED storeVars
    /\ UNCHANGED auxVars

DoFinalize == \E retailer_id \in Retailers, run \in Runs : FinalizeWith(retailer_id, run)

NextFinal ==
    \/ ToSilverEmpty
    \/ DoStandardizeBrandTitle
    \/ DoMapCategories
    \/ DoNormalizeCurrency
    \/ DoNormalizeUnits
    \/ DoComputeEffectivePrice
    \/ DoValidateSchema
    \/ DoMakeSilverKeys
    \/ DoFinalize

SpecFinal == InitShape /\ [][NextFinal]_vars

\* C17: after the finalize step of upsert_to_silver every row has the
\* caller's retailer_id, source_endpoint and ingest_run_id, whatever it held
\* before, and ingest_status 'ok' when the incoming table had no
\* ingest_status column.
C17_Lineage ==
    [][ \A retailer_id \in Retailers, run \in Runs :
          FinalizeWith(retailer_id, run) =>
              \A i \in 1..Len(tbl'.rows) :
                  /\ tbl'.rows[i]["retailer_id"] = Str(retailer_id)
                  /\ tbl'.rows[i]["source_endpoint"] = Str(Endpoint)
                  /\ tbl'.rows[i]["ingest_run_id"] = Str(run)
                  /\ ~HasCol(tblIn, "ingest_status") =>
                        tbl'.rows[i]["ingest_status"] = Str("ok") ]_vars

----------------------------------------------------------------------------
(* The Walmart normalizer: raw table to pre-silver table *)

\* the raw columns normalize_walmart reads, and listPrice, which it does not
WalmartCols ==
    {"walmart_item_id", "itemId", "upc", "title_raw", "name", "brand_raw",
     "brandName", "model_raw", "modelNumber", "model", "category_raw_path",
     "categoryPath", "product_url", "productUrl", "productTrackingUrl",
     "price_current", "salePrice", "price", "listPrice", "msrp", "price_regular",
     "rollback", "clearance", "isOnSale", "stock", "availableOnline",
     "rating_avg", "customerRating", "averageRating", "rating_count",
     "numReviews", "reviewCount", "customerRatingCount", "numberOfReviews",
     "shipping_cost"}

\* coalesce(df, *cols): s starts as None in every row; each candidate column
\* the table has fills the rows of s that are still null (combine_first)
RECURSIVE coalesce(_, _)
coalesce(df, cols) ==
    IF Len(cols) = 0 THEN [i \in 1..Len(df.rows) |-> None]
    ELSE LET s == coalesce(df, SubSeq(cols, 1, Len(cols) - 1))
             c == cols[Len(cols)]
         IN  IF HasCol(df, c)
             THEN [i \in 1..Len(df.rows) |->
                     IF IsNull(s[i]) THEN df.rows[i][c] ELSE s[i]]
             ELSE s

\* r[c] if c in r.columns else <other>
ColOr(df, c, other) == IF HasCol(df, c) THEN Col(df, c) ELSE other

\* str(s).strip().lower().startswith("avail") / .startswith("out")
StartsAvail(s) == s \in {"Available", "available", " AVAILABLE "}
StartsOut(s) == s \in {"Out of stock", "out_of_stock"}

\* bool(x): None, False, 0 and "" are falsy; NaN is truthy
Truthy(v) ==
    CASE v.k = "none" -> FALSE
      [] v.k = "bool" -> v.n = 1
      [] v.k \in {"int", "num"} -> v.n # 0
      [] v.k = "str" -> v.s # ""
      [] OTHER -> TRUE

\* lines 72-82: in_stock_flag and availability_message of one row
StockOf(s, ao) ==
    LET s_norm == IF s.k # "none" THEN PyStr(s) ELSE ""
    IN  IF StartsAvail(s_norm) THEN <<Bool(TRUE), s>>
        ELSE IF StartsOut(s_norm) THEN <<Bool(FALSE), s>>
        ELSE IF ao.k # "none"
        THEN <<Bool(Truthy(ao)),
               IF Truthy(ao) THEN Str("Available Online") ELSE Str("Out of Stock")>>
        ELSE <<None, s>>

\* astype("boolean").fillna(False) of rollback, clearance, isOnSale, or-ed
ExplicitPromo(df, i) ==
    \E c \in {"rollback", "clearance", "isOnSale"} :
        HasCol(df, c) /\ df.rows[i][c] = Bool(TRUE)

\* a table of the silver columns built from column vectors
FromCols(n, vec) ==
    [cols |-> SILVER_COLS,
     rows |-> [i \in 1..n |->
                 [c \in AllCols |-> IF c \in DOMAIN vec THEN vec[c][i] ELSE None]]]

normalize_walmart(r, today, now, run) ==
    IF Len(r.rows) = 0 \/ Len(r.cols) = 0 THEN EmptySilver
    ELSE
    LET N == 1..Len(r.rows)
        nones == [i \in N |-> None]
        float(v) == Infer([i \in N |-> _to_float(v[i])])
        id == [i \in N |-> AsStr(coalesce(r, <<"walmart_item_id", "itemId">>)[i])]
        upc == IF HasCol(r, "upc")
               THEN [i \in N |->
                       LET u == Strip(AsStr(r.rows[i]["upc"]))
                       IN  IF u = Str("") THEN None ELSE u]
               ELSE nones
        cur == float(ColOr(r, "price_current", coalesce(r, <<"salePrice", "price">>)))
        msrp == IF HasCol(r, "msrp") THEN float(Col(r, "msrp")) ELSE nones
        reg == IF HasCol(r, "price_regular") THEN float(Col(r, "price_regular"))
               ELSE msrp
        ch == [i \in N |-> _choose_regular(reg[i], msrp[i])]
        chosen == Infer([i \in N |-> ch[i][1]])
        pr == [i \in N |-> _promo_and_depth(cur[i], chosen[i], ExplicitPromo(r, i))]
        st == [i \in N |-> StockOf(ColOr(r, "stock", nones)[i],
                                   ColOr(r, "availableOnline", nones)[i])]
        ship == float(ColOr(r, "shipping_cost", nones))
        rc == coalesce(r, <<"rating_count", "numReviews", "reviewCount",
                            "customerRatingCount", "numberOfReviews">>)
        vec == [c \in SilverSet |->
                 CASE c = "snapshot_date" -> [i \in N |-> today]
                   [] c = "captured_at" -> [i \in N |-> now]
                   [] c = "retailer_id" -> [i \in N |-> Str("WALMART")]
                   [] c = "native_item_id" -> id
                   [] c = "upc" -> upc
                   [] c = "title_raw" -> coalesce(r, <<"title_raw", "name">>)
                   [] c = "brand_raw" -> coalesce(r, <<"brand_raw", "brandName">>)
                   [] c = "model_raw" ->
                         coalesce(r, <<"model_raw", "modelNumber", "model">>)
                   [] c = "category_raw_path" ->
                         coalesce(r, <<"category_raw_path", "categoryPath">>)
                   [] c = "product_url" ->
                         coalesce(r, <<"product_url", "productUrl",
                                       "productTrackingUrl">>)
                   [] c = "currency" -> [i \in N |-> Str("USD")]
                   [] c = "price_current" -> cur
                   [] c = "price_regular" -> reg
                   [] c = "msrp" -> msrp
                   [] c = "price_regular_chosen" -> chosen
                   [] c = "regular_price_source" -> [i \in N |-> ch[i][2]]
                   [] c = "shipping_cost" -> ship
                   [] c = "landed_price" ->
                         Infer([i \in N |-> _landed(cur[i], ship[i])])
                   [] c = "promo_flag" -> [i \in N |-> pr[i][1]]
                   [] c = "promo_detect_method" -> [i \in N |-> pr[i][2]]
                   [] c = "discount_depth" -> Infer([i \in N |-> pr[i][3]])
                   [] c = "in_stock_flag" -> [i \in N |-> st[i][1]]
                   [] c = "availability_message" -> [i \in N |-> st[i][2]]
                   [] c = "rating_avg" ->
                         float(ColOr(r, "rating_avg",
                                     coalesce(r, <<"customerRating", "averageRating">>)))
                   [] c = "rating_count" -> Infer([i \in N |-> _to_int(rc[i])])
                   [] c = "source_endpoint" ->
                         [i \in N |-> Str("items:responseGroup=full")]
                   [] c = "ingest_run_id" -> [i \in N |-> Str(run)]
                   [] OTHER -> [i \in N |-> Str("ok")]]
    IN  _finalize(FromCols(Len(r.rows), vec), "WALMART",
                  "items:responseGroup=full", run, today, now)

\* raw Walmart records: the scenario row, with every stock text and every
\* availableOnline value of the model (NaN is a key the record does not have
\* in a table where another record has it)
WalmartRaw(stock, ao) ==
    [c \in WalmartCols \cup AllCols |->
        CASE c = "itemId" -> Str("123")
          [] c \in {"salePrice", "price"} -> Str("19.99")
          [] c \in {"listPrice", "price_regular", "msrp"} -> Str("24.99")
          [] c = "brandName" -> Str(" Acme  Co ")
          [] c = "name" -> Str("Widget")
          [] c = "stock" -> stock
          [] c = "availableOnline" -> ao
          [] c = "isOnSale" -> Bool(FALSE)
          [] OTHER -> None]

WalmartRows ==
    {WalmartRaw(stock, ao) :
        stock \in {Str("Available"), Str("Out of stock"), Str("Limited"), None, NaN},
        ao \in {None, NaN, Bool(FALSE)}}

WalmartColsets ==
    { <<"itemId", "salePrice", "listPrice", "brandName", "stock">>,
      <<"itemId", "name", "price", "msrp", "stock", "availableOnline">>,
      <<"itemId", "salePrice", "price_regular", "isOnSale", "availableOnline">>,
      << >> }

CutRaw(r, cs) ==
    [c \in WalmartCols \cup AllCols |-> IF c \in SeqRange(cs) THEN r[c] ELSE None]

WalmartTables ==
    {[cols |-> cs, rows |-> [i \in DOMAIN rs |-> CutRaw(rs[i], cs)]] :
        cs \in WalmartColsets, rs \in SeqsUpTo(WalmartRows, MaxRows)}

InitWalmart ==
    /\ tblIn \in WalmartTables
    /\ tbl = tblIn
    /\ pc = "raw"
    /\ runNo = 1
    /\ firstOut = EmptySilver
    /\ effIn = EmptySilver
    /\ StoreIdle
    /\ AuxIdle

\* etl main, line 96: df_wm_pre = normalize_walmart(df_wm_raw)
DoNormalizeWalmart ==
    /\ pc = "raw"
    /\ \E run \in Uuid4s :
          tbl' \in {normalize_walmart(tbl, Today, Ts(1), run)}
    /\ pc' = "start"
    /\ UNCHANGED <<runNo, tblIn, firstOut, effIn>>
    /\ UNCHANGED storeVars
    /\ UNCHANGED auxVars

NextWalmart == DoNormalizeWalmart \/ NextPipe

SpecWalmart == InitWalmart /\ [][NextWalmart]_vars

\* C20: the Walmart normalizer sets in_stock_flag true for an 'avail...'
\* stock text, false for an 'out...' stock text, and null for every row in
\* which neither the stock text nor availableOnline gives a value, rows in
\* which both are missing included.
C20_InStock ==
    (pc = "start" /\ runNo = 1 /\ Len(tblIn.rows) > 0 /\ Len(tblIn.cols) > 0) =>
        \A i \in 1..Len(tbl.rows) :
            LET stock == tblIn.rows[i]["stock"]
                ao == tblIn.rows[i]["availableOnline"]
                flag == tbl.rows[i]["in_stock_flag"]
            IN  /\ (stock.k = "str" /\ StartsAvail(stock.s)) => flag = Bool(TRUE)
                /\ (stock.k = "str" /\ StartsOut(stock.s)) => flag = Bool(FALSE)
                /\ ( /\ ~(stock.k = "str" /\ (StartsAvail(stock.s) \/ StartsOut(stock.s)))
                     /\ IsNull(ao) ) => IsNull(flag)

\* the raw row of the Walmart scenario: itemId '123', salePrice '19.99',
\* listPrice '24.99', brandName ' Acme  Co ', stock 'Available'
ScenarioTable ==
    LET cs == <<"itemId", "salePrice", "listPrice", "brandName", "stock">>
    IN  [cols |-> cs, rows |-> <<CutRaw(WalmartRaw(Str("Available"), None), cs)>>]

\* C19: the Walmart scenario row, passed through normalize_walmart and the
\* silver pipeline, yields native_item_id '123', brand_raw 'Acme Co',
\* price_current 19.99, price_regular_chosen 24.99, regular_price_source
\* 'explicit_regular', promo_flag true and in_stock_flag true.
C19_WalmartScenario ==
    (pc = "done" /\ runNo = 1 /\ tblIn = ScenarioTable) =>
        /\ Len(tbl.rows) = 1
        /\ tbl.rows[1]["native_item_id"] = Str("123")
        /\ tbl.rows[1]["brand_raw"] = Str("Acme Co")
        /\ tbl.rows[1]["price_current"] = Num(1999)
        /\ tbl.rows[1]["price_regular_chosen"] = Num(2499)
        /\ tbl.rows[1]["regular_price_source"] = Str("explicit_regular")
        /\ tbl.rows[1]["promo_flag"] = Bool(TRUE)
        /\ tbl.rows[1]["in_stock_flag"] = Bool(TRUE)

----------------------------------------------------------------------------
(* The eBay normalizer: raw table to pre-silver table *)

\* the raw columns normalize_ebay reads
EbayCols ==
    {"snapshot_date", "captured_at", "ebay_item_id", "itemId", "legacyItemId",
     "upc", "ean", "gtin", "title", "name", "title_raw", "brand", "itemBrand",
     "brand_raw", "mpn", "model", "model_raw", "category_raw_path",
     "primaryCategory", "categoryPath", "category", "itemWebUrl", "viewItemURL",
     "itemWebURL", "product_url", "currency", "price_current", "price",
     "currentPrice", "price_regular", "originalPrice", "msrp", "shipping_cost",
     "shippingServiceCost", "availability_message", "availabilityStatus",
     "rating_avg", "rating_count", "ingest_run_id", "ingest_status"}

\* The field coalescer (silver_utils.coalesce_cols, imported by retailer_ebay
\* and not part of the source at hand): for each row the first non-null value
\* of the candidate columns in the given order; an absent candidate column is
\* skipped; null when no candidate gives a value.
coalesce_cols(df, cols) ==
    [i \in 1..Len(df.rows) |->
        LET hits == {j \in 1..Len(cols) :
                        HasCol(df, cols[j]) /\ ~IsNull(df.rows[i][cols[j]])}
        IN  IF hits = {} THEN None
            ELSE df.rows[i][cols[CHOOSE j \in hits : \A h \in hits : j <= h]]]

\* lines 182-186: _stock_flag of the uppercased availability_message
\* ("IN_STOCK" in s / "OUT_OF_STOCK" in s, on the messages of the model)
_stock_flag(v) ==
    IF v.k = "str" /\ v.s = "IN_STOCK" THEN Bool(TRUE)
    ELSE IF v.k = "str" /\ v.s = "OUT_OF_STOCK" THEN Bool(FALSE)
    ELSE None

\* lines 190-195: (pc is not None) and (pr is not None) and float(pc) < float(pr)
_explicit_promo(cur, reg) ==
    Bool(cur.k # "none" /\ reg.k # "none" /\ FLt(cur, reg))

normalize_ebay(df_raw) ==
    IF Len(df_raw.rows) = 0 \/ Len(df_raw.cols) = 0 THEN EmptySilver
    ELSE
    LET N == 1..Len(df_raw.rows)
        pick(cols) == coalesce_cols(df_raw, cols)
        float(v) == Infer([i \in N |-> _to_float(v[i])])
        cur == float(pick(<<"price_current", "price", "currentPrice">>))
        reg == float(pick(<<"price_regular", "originalPrice">>))
        msg == pick(<<"availability_message", "availabilityStatus">>)
        currency == pick(<<"currency">>)
        vec == [c \in SilverSet |->
                 CASE c = "snapshot_date" -> pick(<<"snapshot_date">>)
                   [] c = "captured_at" -> pick(<<"captured_at">>)
                   [] c = "retailer_id" -> [i \in N |-> Str("ebay")]
                   [] c = "native_item_id" ->
                         pick(<<"ebay_item_id", "itemId", "legacyItemId">>)
                   [] c = "upc" -> pick(<<"upc", "ean", "gtin">>)
                   [] c = "title_raw" -> pick(<<"title", "name", "title_raw">>)
                   [] c = "brand_raw" -> pick(<<"brand", "itemBrand", "brand_raw">>)
                   [] c = "model_raw" -> pick(<<"mpn", "model", "model_raw">>)
                   [] c = "category_raw_path" ->
                         pick(<<"category_raw_path", "primaryCategory",
                                "categoryPath", "category">>)
                   [] c = "product_url" ->
                         pick(<<"itemWebUrl", "viewItemURL", "itemWebURL",
                                "product_url">>)
                   [] c = "currency" ->
                         [i \in N |->
                             IF IsNull(currency[i]) \/ PyStr(currency[i]) = ""
                             THEN Str("USD") ELSE AsStr(currency[i])]
                   [] c = "price_current" -> cur
                   [] c = "price_regular" -> reg
                   [] c = "msrp" -> float(pick(<<"msrp">>))
                   [] c = "shipping_cost" ->
                         float(pick(<<"shipping_cost", "shippingServiceCost">>))
                   [] c = "promo_flag" ->
                         [i \in N |-> _explicit_promo(cur[i], reg[i])]
                   [] c = "in_stock_flag" ->
                         [i \in N |->
                             _stock_flag(IF IsNull(msg[i]) THEN msg[i]
                                         ELSE Str(UpperText(PyStr(msg[i]))))]
                   [] c = "availability_message" -> msg
                   [] c = "rating_avg" -> float(pick(<<"rating_avg">>))
                   [] c = "rating_count" ->
                         Infer([i \in N |-> _to_int(pick(<<"rating_count">>)[i])])
                   [] c = "source_endpoint" -> [i \in N |-> Str("browse:item")]
                   [] c = "ingest_run_id" -> pick(<<"ingest_run_id">>)
                   [] c = "ingest_status" -> pick(<<"ingest_status">>)
                   [] OTHER -> [i \in N |-> None]]
    IN  SelectSilver(FromCols(Len(df_raw.rows), vec))

-----------------------------------------------------------------------------
(* Each operation of the core called by itself, on a table that may be empty *)

\* the names silver_utils binds at module level (its imports, constants, defs)
SilverUtilsNames ==
    {"uuid", "dt", "io", "os", "json", "Optional", "Tuple", "List", "Dict",
     "pd", "BlobServiceClient", "RAW_CONTAINER", "RAW_PREFIX",
     "SILVER_CONTAINER", "SILVER_PREFIX", "SILVER_COLS", "_today_iso",
     "_now_utc_iso", "_blob_service", "_list_latest_blob",
     "_download_blob_text", "_upload_blob_text", "_blob_exists",
     "_df_from_jsonl", "_df_from_json", "read_raw_latest", "_to_float",
     "_to_int", "_to_bool", "_choose_regular", "_promo_and_depth", "_landed",
     "standardize_brand_title", "normalize_currency", "normalize_units",
     "map_categories", "compute_effective_price", "validate_schema",
     "make_silver_keys", "_finalize", "_merge_dedupe", "upsert_to_silver",
     "__all__"}

\* retailer_ebay lines 5-7: from silver_utils import (...)
EbayImports == {"SILVER_COLS", "coalesce_cols", "_to_float", "_to_int"}

\* retailer_walmart lines 3-6: from silver_utils import (...)
WalmartImports ==
    {"SILVER_COLS", "_to_float", "_to_int", "_choose_regular",
     "_promo_and_depth", "_landed", "_today_iso", "_now_utc_iso", "_finalize"}

\* the tables an operation is called on: pre-silver tables of any column
\* list, raw Walmart tables, and one-row tables of the upsert model
OpsTables ==
    ShapeTables \cup WalmartTables
    \cup {[cols |-> SILVER_COLS, rows |-> b] : b \in {x \in Batches : Len(x) = 1}}

InitOps ==
    /\ tblIn \in OpsTables
    /\ tbl = tblIn
    /\ pc = "call"
    /\ runNo = 1
    /\ firstOut = EmptySilver
    /\ effIn = EmptySilver
    /\ StoreIdle
    /\ AuxIdle

\* one call of an operation that returns a table; a step of the pipeline
\* takes an empty table of any column list or a table with the silver columns
CallOn(name, out) ==
    /\ pc = "call"
    /\ tbl' = out
    /\ pc' = name
    /\ UNCHANGED <<runNo, tblIn, firstOut, effIn>>
    /\ UNCHANGED storeVars
    /\ UNCHANGED auxVars

StepInput == Len(tbl.rows) = 0 \/ tbl.cols = SILVER_COLS
RawInput == Len(tbl.rows) = 0 \/ tbl \in WalmartTables

\* importing a module whose from-import names a missing attribute raises
\* ImportError, so no function of that module can be called
CallNormalizeWalmart ==
    /\ RawInput
    /\ IF WalmartImports \subseteq SilverUtilsNames
       THEN \E run \in Uuid4s :
               CallOn("normalize_walmart",
                      normalize_walmart(tbl, Today, Ts(1), run))
       ELSE CallOn("raised", tbl)

CallNormalizeEbay ==
    /\ RawInput
    /\ IF EbayImports \subseteq SilverUtilsNames
       THEN CallOn("normalize_ebay", normalize_ebay(tbl))
       ELSE CallOn("raised", tbl)

\* upsert_to_silver with a blob store that works
CallUpsert ==
    /\ pc = "call"
    /\ ncalls < MaxCalls
    /\ Len(tbl.rows) = 0 \/ (tbl.cols = SILVER_COLS /\ tbl.rows \in Batches)
    /\ \E run \in Runs : Upsert(tbl.rows, run, "none")

NextOps ==
    \/ StepInput /\ CallOn("standardize_brand_title", standardize_brand_title(tbl))
    \/ StepInput /\ CallOn("map_categories", map_categories(tbl))
    \/ StepInput /\ CallOn("normalize_currency", normalize_currency(tbl))
    \/ StepInput /\ CallOn("normalize_units", normalize_units(tbl))
    \/ StepInput /\ CallOn("compute_effective_price", compute_effective_price(tbl))
    \/ StepInput /\ \E now \in NowSet :
          CallOn("validate_schema", validate_schema(tbl, Today, now))
    \/ StepInput /\ \E rnd \in (IF NeedsUuid4(tbl) THEN [1..Len(tbl.rows) -> Uuid4s]
                                ELSE {NoUuid4}) :
          CallOn("make_silver_keys", make_silver_keys(tbl, rnd))
    \/ StepInput /\ CallOn("to_silver", to_silver(tbl, Today, Ts(1), NoUuid4))
    \/ CallNormalizeWalmart
    \/ CallNormalizeEbay
    \/ CallUpsert

SpecOps == InitOps /\ [][NextOps]_vars

\* C18: called on an empty table, no operation of the core raises: the two
\* normalizers and every pipeline step return the empty table with exactly
\* the silver columns, and upsert_to_silver returns the empty list and
\* writes no blob.
C18_EmptyInput ==
    [][(pc = "call" /\ Len(tbl.rows) = 0) =>
          /\ pc' # pc => (pc' # "raised" /\ tbl' = EmptySilver)
          /\ ncalls' # ncalls =>
                (last'.outcome = "empty" /\ current' = current /\ audit' = audit)
      ]_vars

-----------------------------------------------------------------------------
(* The field coalescer of the two retailer normalizers *)

CoalesceCols == <<"title_raw", "name", "brand_raw">>

\* a raw row: each candidate column holds None, NaN or a text of its own
CoalesceRows ==
    {[c \in WalmartCols \cup AllCols |->
         IF c \in SeqRange(CoalesceCols) THEN pick[c] ELSE None] :
       pick \in [SeqRange(CoalesceCols) -> {"none", "nan", "text"}]}

CoalesceCell(r, c) ==
    CASE r[c] = "none" -> None
      [] r[c] = "nan" -> NaN
      [] r[c] = "text" -> Str(c)
      [] OTHER -> r[c]

\* tables with all, some or none of the candidate columns
CoalesceTables ==
    {[cols |-> cs,
      rows |-> [i \in DOMAIN rs |->
                  CutRaw([c \in DOMAIN rs[i] |-> CoalesceCell(rs[i], c)], cs)]] :
        cs \in {CoalesceCols, <<"brand_raw", "title_raw">>, <<"name">>, << >>},
        rs \in SeqsUpTo(CoalesceRows, MaxRows)}

\* ordered candidate lists, as the normalizers pass them
CandLists ==
    {<<"title_raw", "name">>, <<"name", "title_raw">>,
     <<"brand_raw", "name", "title_raw">>, <<"name", "brand_raw">>,
     <<"brand_raw">>, << >>}

InitCoalesce ==
    /\ tblIn \in CoalesceTables
    /\ tbl = tblIn
    /\ pc = "call"
    /\ runNo = 1
    /\ firstOut = EmptySilver
    /\ effIn = EmptySilver
    /\ StoreIdle
    /\ AuxIdle

Called(op, cols, out) ==
    /\ pc = "call"
    /\ call' = [op |-> op, cols |-> cols, out |-> out]
    /\ pc' = "returned"
    /\ UNCHANGED <<tbl, runNo, tblIn, firstOut, effIn>>
    /\ UNCHANGED storeVars
    /\ UNCHANGED <<blobs, blobs0, procs, http, ebay, etl>>

\* retailer_walmart: coalesce(r, *cols)
CallCoalesce ==
    \E cols \in CandLists : Called("coalesce", cols, coalesce(tbl, cols))

\* retailer_ebay: pick(cols) = coalesce_cols(r, cols), the name its module
\* imports from silver_utils
CallCoalesceCols ==
    \E cols \in CandLists :
        IF EbayImports \subseteq SilverUtilsNames
        THEN Called("coalesce_cols", cols, coalesce_cols(tbl, cols))
        ELSE Called("raised", cols, << >>)

NextCoalesce == CallCoalesce \/ CallCoalesceCols

SpecCoalesce == InitCoalesce /\ [][NextCoalesce]_vars

\* C21: the field coalescer gives each row the first non-null value of the
\* candidate columns in the given order, skips a candidate column the table
\* does not have, gives null when no candidate has a value, leaves the table
\* as it was, and is there for both normalizers (neither call raises).
C21_Coalescer ==
    pc = "returned" =>
        /\ call.op # "raised"
        /\ tbl = tblIn
        /\ Len(call.out) = Len(tblIn.rows)
        /\ \A i \in 1..Len(tblIn.rows) :
              LET hits == {j \in 1..Len(call.cols) :
                              /\ HasCol(tblIn, call.cols[j])
                              /\ ~IsNull(tblIn.rows[i][call.cols[j]])}
              IN  IF hits = {} THEN IsNull(call.out[i])
                  ELSE call.out[i] =
                          tblIn.rows[i][call.cols[CHOOSE j \in hits :
                                                    \A h \in hits : j <= h]]

-----------------------------------------------------------------------------
(* Further claims about the silver transform pipeline *)

MoneyCols ==
    {"price_current", "price_regular", "msrp", "price_regular_chosen",
     "shipping_cost", "landed_price", "discount_depth"}

\* C22: in every row the pipeline returns, each of price_current,
\* price_regular, msrp, price_regular_chosen, shipping_cost, landed_price and
\* discount_depth is null or a number greater than or equal to 0.
C22_NonNegative ==
    pc = "done" =>
        \A i \in 1..Len(tbl.rows) : \A c \in MoneyCols :
            \/ IsNull(tbl.rows[i][c])
            \/ (tbl.rows[i][c].k = "num" /\ tbl.rows[i][c].n >= 0)

\* the category texts of the model that have two ' > ' separators with
\* nothing between them, or a separator at an end
BrokenPaths == {"A > > B", "A >  > B", " > A > B > ", "A>>B", "/A/B/", "A/B", "A|B"}

\* C26: category normalization turns every delimiter ('/', '|', a run of
\* '>') with the whitespace around it into one ' > ' and removes separators
\* at both ends: the output path has no two separators in a row, no
\* separator at an end, and no delimiter left as it was.
C26_CategoryPath ==
    pc = "category" =>
        \A i \in 1..Len(tbl.rows) :
            tbl.rows[i]["category_raw_path"].k = "str" =>
                tbl.rows[i]["category_raw_path"].s \notin BrokenPaths

\* C29: in every row the effective-price step returns, promo_flag is true
\* exactly when promo_detect_method is not 'none'; discount_depth is null
\* exactly when price_current is null, price_regular_chosen is null or
\* price_regular_chosen <= 0; and a discount_depth that is not null is 0
\* whenever promo_flag is false.
C29_PromoConsistent ==
    pc = "effective" =>
        \A i \in 1..Len(tbl.rows) :
            LET cur == tbl.rows[i]["price_current"]
                reg == tbl.rows[i]["price_regular_chosen"]
                flag == tbl.rows[i]["promo_flag"]
                how == tbl.rows[i]["promo_detect_method"]
                depth == tbl.rows[i]["discount_depth"]
            IN  /\ (flag = Bool(TRUE)) <=> (how # Str("none"))
                /\ IsNull(depth) <=>
                      (IsNull(cur) \/ IsNull(reg) \/ FLe(reg, Num(0)))
                /\ (~IsNull(depth) /\ flag # Bool(TRUE)) => depth = Num(0)

-----------------------------------------------------------------------------
(* _merge_dedupe called by itself: the current view joined to a new part *)

MaxExisting == 1

MergeRows ==
    {[BaseRow EXCEPT !["native_item_id"] = Str(i), !["captured_at"] = t] :
        i \in {"7", "ab"}, t \in {Ts(1), Ts(2), Str("garbage")}}

InitMerge ==
    /\ tblIn \in {[cols |-> SILVER_COLS, rows |-> rs] :
                    rs \in SeqsUpTo(MergeRows, MaxBatch) \ {<< >>}}
    /\ tbl = tblIn
    /\ pc = "merge"
    /\ runNo = 1
    /\ firstOut = EmptySilver
    /\ effIn = EmptySilver
    /\ current \in {NoBlob} \cup
                   {Blob(to_csv([cols |-> SILVER_COLS, rows |-> rs])) :
                       rs \in SeqsUpTo(MergeRows, MaxExisting)}
    /\ audit = [r \in Runs |-> NoBlob]
    /\ ncalls = 0
    /\ last = [run |-> "", fail |-> "none", outcome |-> "none"]
    /\ maxSeen = [i \in UpsertIds |-> 0]
    /\ badSeen = FALSE
    /\ AuxIdle

\* lines 478-482: existing = read_csv(current.csv) if the blob is there
Existing == IF current.exists THEN read_csv(current.rows) ELSE EmptySilver

DoMerge ==
    /\ pc = "merge"
    /\ tbl' = _merge_dedupe(Existing, tblIn, KeyCols)
    /\ pc' = "merged"
    /\ UNCHANGED <<runNo, tblIn, firstOut, effIn>>
    /\ UNCHANGED storeVars
    /\ UNCHANGED auxVars

NextMerge == DoMerge

SpecMerge == InitMerge /\ [][NextMerge]_vars

\* the rows the merge sorts: existing followed by incoming
MergeBase ==
    IF Len(Existing.rows) = 0 THEN tblIn.rows ELSE concat(Existing, tblIn).rows

Unparsable(r) == ParseTs(r["captured_at"]) = NaT

\* C25: in the merged table every row with an unparsable captured_at comes
\* after every row with a parsable one, and for each key the merge keeps
\* exactly one row, the last of the key in ascending timestamp order: the
\* last unparsable row of the key if it has one, else its row with the
\* greatest captured_at (the later row of the input on a tie).
C25_UnparsableLast ==
    pc = "merged" =>
        LET base == MergeBase
            N == 1..Len(base)
            M == 1..Len(tbl.rows)
            class(p) == {q \in N : KeyEq(base[q], base[p], KeyCols)}
            bad(p) == {q \in class(p) : Unparsable(base[q])}
            top(S) == CHOOSE q \in S : \A h \in S : h <= q
            newest(p) ==
                top({q \in class(p) : \A h \in class(p) :
                        ParseTs(base[h]["captured_at"])
                            <= ParseTs(base[q]["captured_at"])})
            winner(p) == IF bad(p) # {} THEN top(bad(p)) ELSE newest(p)
        IN  /\ \A k, l \in M :
                  (k < l /\ Unparsable(tbl.rows[k])) => Unparsable(tbl.rows[l])
            /\ \A p \in N :
                  LET hits == {k \in M : KeyEq(tbl.rows[k], base[p], KeyCols)}
                  IN  /\ Cardinality(hits) = 1
                      /\ \A k \in hits : tbl.rows[k] = base[winner(p)]

\* a merge in which a stored row with an unparsable captured_at met a new
\* row of the same key with a parsable one, and the stored row was kept
C25_Witness ==
    /\ pc = "merged"
    /\ Len(Existing.rows) = 1
    /\ Unparsable(Existing.rows[1])
    /\ \E j \in 1..Len(tblIn.rows) :
          /\ KeyEq(MergeBase[1], MergeBase[1 + j], KeyCols)
          /\ ~Unparsable(tblIn.rows[j])
    /\ \E k \in 1..Len(tbl.rows) : tbl.rows[k] = MergeBase[1]

-----------------------------------------------------------------------------
(* Two upsert_to_silver runs whose storage calls interleave *)

ProcIds == {1, 2}

\* the incoming tables of the runs: one row each, of different ids
ConcRows ==
    {[BaseRow EXCEPT !["native_item_id"] = Str(i), !["captured_at"] = Ts(1)] :
        i \in {"ab", "cd"}}
\* the row of the current view stored before the runs, of a third id
StoredRow == [BaseRow EXCEPT !["native_item_id"] = Str("ef")]

\* lines 456-463: the pipeline and the finalize step; they read and write
\* nothing outside the call, so the part is ready when the call reaches the
\* loop of line 467 (one snapshot date, one partition)
ConcPart ==
    [retailer_id \in Retailers, run \in Runs, r \in ConcRows \cup {StoredRow} |->
        CHOOSE part \in
            {_finalize(piped, retailer_id, "pull", run, Today, Ts(1)) : piped \in
                {to_silver([cols |-> SILVER_COLS, rows |-> <<r>>],
                           Today, Ts(1), NoUuid4)}} : TRUE]

\* lines 469-471: silver/{retailer_id}/snapshot_date={snap}/{file}; file is
\* "current" for current.csv and the ingest_run_id for run_{ingest_run_id}.csv
BlobNameSharedMutant(retailer_id, file) == <<"silver", file>>

BlobName(retailer_id, file) == <<retailer_id, file>>

BlobNames == (Retailers \cup {"silver"}) \X ({"current"} \cup Runs)

CurrentOf(p) == BlobName(procs[p].retailer_id, "current")

\* the other run has already uploaded its current.csv to the same blob
OtherWrote(p) ==
    \E q \in ProcIds \ {p} :
        procs[q].pc = "done" /\ CurrentOf(q) = CurrentOf(p)

\* the other run is between its first and its last storage call
OtherRunning(p) ==
    \E q \in ProcIds \ {p} : procs[q].pc \notin {"audit", "done"}

InitConc ==
    /\ tblIn = EmptySilver
    /\ tbl = EmptySilver
    /\ pc = "idle"
    /\ runNo = 1
    /\ firstOut = EmptySilver
    /\ effIn = EmptySilver
    /\ StoreIdle
    /\ call = [op |-> "none", cols |-> << >>, out |-> << >>]
    /\ http = << >>
    /\ ebay = << >>
    /\ etl = << >>
    /\ blobs0 \in
          {[n \in BlobNames |-> NoBlob]} \cup
          {[n \in BlobNames |->
               IF n = BlobName("walmart", "current")
               THEN Blob(to_csv(ConcPart["walmart", "r1", StoredRow])) ELSE NoBlob]}
    /\ blobs = blobs0
    /\ procs \in
          [ProcIds ->
              {[retailer_id |-> ret, run |-> run, part |-> ConcPart[ret, run, r],
                pc |-> "audit", found |-> FALSE, existing |-> EmptySilver,
                sawOther |-> FALSE, overlap |-> FALSE] :
                 ret \in Retailers, run \in Runs, r \in ConcRows}]

ConcStep ==
    /\ UNCHANGED pipeVars
    /\ UNCHANGED storeVars
    /\ UNCHANGED <<call, blobs0, http, ebay, etl>>

\* line 474: _upload_blob_text(run_blob, part.to_csv())
UploadAudit(p) ==
    /\ procs[p].pc = "audit"
    /\ blobs' = [blobs EXCEPT ![BlobName(procs[p].retailer_id, procs[p].run)] =
                                  Blob(to_csv(procs[p].part))]
    /\ procs' = [procs EXCEPT ![p].pc = "exists"]
    /\ ConcStep

\* line 478: _blob_exists(current_blob); lines 481-482 when it does not exist
BlobExists(p) ==
    /\ procs[p].pc = "exists"
    /\ procs' = [procs EXCEPT ![p].found = blobs[CurrentOf(p)].exists,
                              ![p].sawOther = OtherWrote(p),
                              ![p].overlap = OtherRunning(p),
                              ![p].pc = IF blobs[CurrentOf(p)].exists
                                        THEN "download" ELSE "merge"]
    /\ UNCHANGED blobs
    /\ ConcStep

\* lines 479-480: _download_blob_text(current_blob) and pd.read_csv
Download(p) ==
    /\ procs[p].pc = "download"
    /\ procs' = [procs EXCEPT ![p].existing = read_csv(blobs[CurrentOf(p)].rows),
                              ![p].sawOther = OtherWrote(p),
                              ![p].pc = "merge"]
    /\ UNCHANGED blobs
    /\ ConcStep

\* line 484: merged = _merge_dedupe(existing, part, key_cols)
MergedFreshReadMutant(p) ==
    _merge_dedupe(IF blobs[CurrentOf(p)].exists
                  THEN read_csv(blobs[CurrentOf(p)].rows) ELSE EmptySilver,
                  procs[p].part, KeyCols)

Merged(p) == _merge_dedupe(procs[p].existing, procs[p].part, KeyCols)

\* line 485: _upload_blob_text(current_blob, merged.to_csv()), overwrite=True
UploadCurrent(p) ==
    /\ procs[p].pc = "merge"
    /\ blobs' = [blobs EXCEPT ![CurrentOf(p)] = Blob(to_csv(Merged(p)))]
    /\ procs' = [procs EXCEPT ![p].pc = "done"]
    /\ ConcStep

NextConc ==
    \E p \in ProcIds :
        \/ UploadAudit(p)
        \/ BlobExists(p)
        \/ Download(p)
        \/ UploadCurrent(p)

SpecConc == InitConc /\ [][NextConc]_vars

\* the blobs after run p has executed alone, from its first storage call to
\* its last, on the blobs of store
RunAlone(store, p) ==
    LET cur == CurrentOf(p)
        s1 == [store EXCEPT ![BlobName(procs[p].retailer_id, procs[p].run)] =
                               Blob(to_csv(procs[p].part))]
        existing == IF s1[cur].exists THEN read_csv(s1[cur].rows) ELSE EmptySilver
    IN  [s1 EXCEPT ![cur] =
            Blob(to_csv(_merge_dedupe(existing, procs[p].part, KeyCols)))]

AllDone == \A p \in ProcIds : procs[p].pc = "done"

\* C23: two runs for different retailer_id values use disjoint blob names,
\* so however their storage calls interleave, every blob ends as if the two
\* runs had executed one after the other (in either order).
C23_DisjointRetailers ==
    (AllDone /\ procs[1].retailer_id # procs[2].retailer_id) =>
        /\ {BlobName(procs[1].retailer_id, f) : f \in {"current"} \cup Runs}
             \cap {BlobName(procs[2].retailer_id, f) : f \in {"current"} \cup Runs}
             = {}
        /\ blobs = RunAlone(RunAlone(blobs0, 1), 2)
        /\ blobs = RunAlone(RunAlone(blobs0, 2), 1)

\* both runs are over, for different retailers, and each made its reads
\* while the other was between its first and its last storage call
C23_Witness ==
    /\ AllDone
    /\ procs[1].retailer_id # procs[2].retailer_id
    /\ \A p \in ProcIds : procs[p].overlap
    /\ blobs0[BlobName("walmart", "current")].exists
    /\ blobs[BlobName("ebay", "current")].exists
    /\ Len(blobs[BlobName("walmart", "current")].rows) = 2

CurrentKeys(p) ==
    LET view == read_csv(blobs[CurrentOf(p)].rows).rows
    IN  {KeyText(view[i]) : i \in 1..Len(view)}

\* two runs for the same partition, of different ids, neither of which read
\* the current view after the other had written it
BothStale ==
    /\ AllDone
    /\ CurrentOf(1) = CurrentOf(2)
    /\ \A p \in ProcIds : ~procs[p].sawOther
    /\ KeyText(procs[1].part.rows[1]) # KeyText(procs[2].part.rows[1])

\* C24: no lock and no version check stands between the read and the write
\* of current.csv: when two runs for the same retailer and snapshot date both
\* read the current view before either has written it, the second write
\* replaces the first and the final view lacks the row of one of the runs.
C24_LostUpdate ==
    BothStale =>
        \E p \in ProcIds : KeyText(procs[p].part.rows[1]) \notin CurrentKeys(p)

C24_Witness ==
    /\ BothStale
    /\ \E p \in ProcIds : KeyText(procs[p].part.rows[1]) \notin CurrentKeys(p)
    /\ blobs0[CurrentOf(1)].exists

-----------------------------------------------------------------------------
(* n_walmart_pull.request_items: one batch of ids against the items endpoint *)

MaxIds == 3
\* requests after which the model stops following a run
MaxRequests == 8

ItemIds == {"i1", "i2", "i3"}

\* lists of different ids, as load_master gives them (drop_duplicates)
IdLists ==
    {ids \in SeqsUpTo(ItemIds, MaxIds) :
        \A a, b \in 1..Len(ids) : a # b => ids[a] # ids[b]}

\* a pending call request_items(ids); retried counts the 429/5xx responses
\* among the calls it descends from
Pending(ids, retried) == [ids |-> ids, retried |-> retried]

InitPull ==
    /\ tblIn = EmptySilver
    /\ tbl = EmptySilver
    /\ pc = "idle"
    /\ runNo = 1
    /\ firstOut = EmptySilver
    /\ effIn = EmptySilver
    /\ StoreIdle
    /\ call = [op |-> "none", cols |-> << >>, out |-> << >>]
    /\ blobs = << >>
    /\ blobs0 = << >>
    /\ procs = << >>
    /\ ebay = << >>
    /\ etl = << >>
    /\ \E ids \in IdLists :
          http = [stack |-> <<Pending(ids, 0)>>,
                  sent |-> [i \in ItemIds |-> 0],
                  total |-> 0,
                  items |-> {}]

PullStep ==
    /\ UNCHANGED pipeVars
    /\ UNCHANGED storeVars
    /\ UNCHANGED <<call, blobs, blobs0, procs, ebay, etl>>

Top == http.stack[1]
Rest == Tail(http.stack)

\* the call at the top of the stack sends its GET (line 86) and goes on with
\* the calls of next in its place
Requested(next, got) ==
    /\ Len(http.stack) > 0
    /\ Len(Top.ids) > 0
    /\ http.total < MaxRequests
    /\ http' = [stack |-> next \o Rest,
                sent |-> [i \in ItemIds |->
                            IF i \in SeqRange(Top.ids) THEN http.sent[i] + 1
                            ELSE http.sent[i]],
                total |-> http.total + 1,
                items |-> http.items \cup got]
    /\ PullStep

\* lines 82-83: if not ids: return []
ReturnEmpty ==
    /\ Len(http.stack) > 0
    /\ Len(Top.ids) = 0
    /\ http' = [http EXCEPT !.stack = Rest]
    /\ PullStep

\* lines 87-89: 200, the items of the payload (any of the ids asked for)
Respond200 ==
    /\ Len(http.stack) > 0
    /\ \E got \in SUBSET SeqRange(Top.ids) : Requested(<< >>, got)

\* lines 91-93: 400 on more than one id, the two halves
Respond400 ==
    /\ Len(http.stack) > 0
    /\ Len(Top.ids) > 1
    /\ LET mid == Len(Top.ids) \div 2
       IN  Requested(<<Pending(SubSeq(Top.ids, 1, mid), Top.retried),
                       Pending(SubSeq(Top.ids, mid + 1, Len(Top.ids)), Top.retried)>>,
                     {})

\* lines 95-100: 429/5xx, request_items([i]) for each id of the call
RespondBusy ==
    /\ Len(http.stack) > 0
    /\ Requested([k \in 1..Len(Top.ids) |->
                     Pending(<<Top.ids[k]>>, Top.retried + 1)], {})

\* lines 101-105: another status (a 400 on one id included) or a
\* RequestException: a warning and []
RespondOther ==
    /\ Len(http.stack) > 0
    /\ Requested(<< >>, {})

NextPull ==
    \/ ReturnEmpty
    \/ Respond200
    \/ Respond400
    \/ RespondBusy
    \/ RespondOther

SpecPull == InitPull /\ [][NextPull]_vars

\* C28: request_items ends for every list of ids and every pattern of
\* responses: after a 429/5xx each id is retried once, as a single-id
\* request, and an id that fails again is given up, so no pending call
\* descends from two 429/5xx responses, and an id is asked for at most once
\* per halving of its batch plus once for its retry.
C28_RetriedOnce ==
    /\ \A k \in 1..Len(http.stack) : http.stack[k].retried <= 1
    /\ \A i \in ItemIds : http.sent[i] <= MaxIds + 1


(***************************************************************************)
(* eBay pull: the OAuth token cache and the requests that carry the token  *)
(* (n_ebay_pull.py 49-88, 93-133, 165-184).  Time is counted in minutes,   *)
(* so the 60 seconds of the expiry check are one unit.                     *)
(***************************************************************************)
Margin == 1

MaxTime == 6

\* token fetches explored in one behaviour
MaxFetches == 3

\* expires_in values the token endpoint answers with, in minutes
ExpiresIn == {1, 3}

EbayFns == {"request_items_by_id", "search_by_gtin"}

NoRequest == [token |-> 0, at |-> 0, expiry |-> 0]

\* module state after import: _cached_token = None (0), _cached_expiry = 0.0
InitEbay ==
    /\ tblIn = EmptySilver
    /\ tbl = EmptySilver
    /\ pc = "idle"
    /\ runNo = 1
    /\ firstOut = EmptySilver
    /\ effIn = EmptySilver
    /\ StoreIdle
    /\ call = [op |-> "none", cols |-> << >>, out |-> << >>]
    /\ blobs = << >>
    /\ blobs0 = << >>
    /\ procs = << >>
    /\ http = << >>
    /\ etl = << >>
    /\ ebay = [now |-> 0, _cached_token |-> 0, _cached_expiry |-> 0,
               fetches |-> 0, fn |-> "none", hdrs |-> 0, hdrsExpiry |-> 0,
               todo |-> 0, retry |-> FALSE, sent |-> NoRequest]

EbayStep ==
    /\ UNCHANGED pipeVars
    /\ UNCHANGED storeVars
    /\ UNCHANGED <<call, blobs, blobs0, procs, http, etl>>

\* time.sleep and the duration of the HTTP calls: the clock moves on
Tick ==
    /\ ebay.now < MaxTime
    /\ ebay' = [ebay EXCEPT !.now = @ + 1]
    /\ EbayStep

\* the condition of line 58
CacheHit(e) == e._cached_token # 0 /\ e.now < e._cached_expiry - Margin

\* _get_ebay_access_token: the cache after the call; tokens are numbered by
\* the fetch that produced them
_get_ebay_access_token(e, expires_in) ==
    IF CacheHit(e)
    THEN e
    ELSE [e EXCEPT !._cached_token = e.fetches + 1,
                   !._cached_expiry = e.now + expires_in,
                   !.fetches = e.fetches + 1]

\* hdrs = ebay_headers(), once, before the loop over the ids
StartCall ==
    /\ ebay.fn = "none"
    /\ CacheHit(ebay) \/ ebay.fetches < MaxFetches
    /\ \E fn \in EbayFns, n \in 1..MaxIds, expires_in \in ExpiresIn :
         LET e == _get_ebay_access_token(ebay, expires_in)
         IN  ebay' = [e EXCEPT !.fn = fn, !.hdrs = e._cached_token,
                               !.hdrsExpiry = e._cached_expiry,
                               !.todo = n, !.retry = FALSE]
    /\ EbayStep

\* the token endpoint answers with a status other than 200: sys.exit(1)
TokenFailed ==
    /\ ebay.fn = "none"
    /\ ~CacheHit(ebay)
    /\ ebay' = [ebay EXCEPT !.fn = "exited"]
    /\ EbayStep

Sending == [token |-> ebay.hdrs, at |-> ebay.now, expiry |-> ebay.hdrsExpiry]

\* requests.get(..., headers=hdrs) for the next id; 429/5xx asks for a retry
SendRequest ==
    /\ ebay.fn \in EbayFns
    /\ ebay.todo > 0
    /\ ~ebay.retry
    /\ \E busy \in BOOLEAN :
         ebay' = [ebay EXCEPT !.sent = Sending, !.retry = busy,
                              !.todo = IF busy THEN @ ELSE @ - 1]
    /\ EbayStep

\* the second requests.get of the same id, with the same hdrs
SendRetry ==
    /\ ebay.fn \in EbayFns
    /\ ebay.retry
    /\ ebay' = [ebay EXCEPT !.sent = Sending, !.retry = FALSE, !.todo = @ - 1]
    /\ EbayStep

ReturnCall ==
    /\ ebay.fn \in EbayFns
    /\ ebay.todo = 0
    /\ ebay' = [ebay EXCEPT !.fn = "none", !.hdrs = 0, !.hdrsExpiry = 0,
                            !.sent = NoRequest]
    /\ EbayStep

NextEbay ==
    \/ Tick
    \/ StartCall
    \/ TokenFailed
    \/ SendRequest
    \/ SendRetry
    \/ ReturnCall

SpecEbay == InitEbay /\ [][NextEbay]_vars

\* C30: a call of request_items_by_id or search_by_gtin reuses the cached
\* token without a fetch exactly when the time is more than 60 seconds before
\* the cached expiry, otherwise it fetches and replaces token and expiry; and
\* every request sent carries a token that has not expired when it is sent.
C30_TokenFresh ==
    [][/\ (ebay.fn = "none" /\ ebay'.fn \in EbayFns) =>
            /\ (ebay'.fetches = ebay.fetches) <=>
                   (ebay._cached_token # 0
                        /\ ebay.now + Margin < ebay._cached_expiry)
            /\ (ebay'.fetches = ebay.fetches) =>
                   /\ ebay'._cached_token = ebay._cached_token
                   /\ ebay'._cached_expiry = ebay._cached_expiry
            /\ (ebay'.fetches # ebay.fetches) =>
                   /\ ebay'._cached_token # ebay._cached_token
                   /\ ebay'._cached_expiry > ebay.now
            /\ ebay'.hdrs = ebay'._cached_token
       /\ (ebay'.sent # ebay.sent /\ ebay'.sent # NoRequest) =>
            ebay'.sent.at < ebay'.sent.expiry]_vars


(***************************************************************************)
(* The orchestrated run: python etl_script.py, the imports of lines 6-40   *)
(* and then main (lines 71-111).  Frames are followed by their number of   *)
(* rows; the normalizers keep one row per raw row.                          *)
(***************************************************************************)
\* rows a raw pull parses, and rows of a raw blob left by an earlier run
MaxRaw == 2

\* etl_script.py lines 6-11: from silver_utils import (...)
EtlImports ==
    {"SILVER_COLS", "standardize_brand_title", "map_categories",
     "normalize_currency", "normalize_units", "compute_effective_price",
     "validate_schema", "make_silver_keys", "read_raw_latest",
     "upsert_to_silver"}

\* what silver_utils binds: the module under src/, or that module completed
\* by the field coalescer retailer_ebay asks for
SilverUtilsBuilds == {SilverUtilsNames, SilverUtilsNames \cup {"coalesce_cols"}}

\* the parameters of upsert_to_silver (silver_utils.py 433-439)
UpsertParams ==
    {"df", "retailer_id", "source_endpoint", "ingest_run_id", "key_cols"}

\* the keywords main passes besides the positional df (lines 102-111)
UpsertKeywords ==
    {"retailer_id", "source_endpoint", "ingest_run_id", "table", "key_cols"}

\* the statements of main, in program order
MainBody ==
    << <<"pull", "walmart">>, <<"pull", "ebay">>,
       <<"read", "walmart">>, <<"read", "ebay">>,
       <<"assert_raw", "walmart">>, <<"assert_raw", "ebay">>,
       <<"normalize", "walmart">>, <<"normalize", "ebay">>,
       <<"assert_pre", "walmart">>, <<"assert_pre", "ebay">>,
       <<"upsert", "walmart">>, <<"upsert", "ebay">> >>

NoFrames == [r \in Retailers |-> 0]

InitEtl ==
    /\ tblIn = EmptySilver
    /\ tbl = EmptySilver
    /\ pc = "idle"
    /\ runNo = 1
    /\ firstOut = EmptySilver
    /\ effIn = EmptySilver
    /\ StoreIdle
    /\ call = [op |-> "none", cols |-> << >>, out |-> << >>]
    /\ blobs = << >>
    /\ blobs0 = << >>
    /\ procs = << >>
    /\ http = << >>
    /\ ebay = << >>
    /\ \E names \in SilverUtilsBuilds,
          parsed \in [Retailers -> 0..MaxRaw],
          raw \in [Retailers -> 0..MaxRaw] :
         etl = [at |-> 0, err |-> "none", silver_utils |-> names,
                parsed |-> parsed, raw |-> raw, df_raw |-> NoFrames,
                df_pre |-> NoFrames, ran |-> << >>, written |-> {}]

EtlStep ==
    /\ UNCHANGED pipeVars
    /\ UNCHANGED storeVars
    /\ UNCHANGED <<call, blobs, blobs0, procs, http, ebay>>

Stmt == MainBody[etl.at]

AtStmt(op) ==
    /\ etl.err = "none"
    /\ etl.at \in 1..Len(MainBody)
    /\ Stmt[1] = op

\* the statement ran to its end: main goes on with the next one
Ran(e) == [e EXCEPT !.at = @ + 1, !.ran = Append(@, Stmt)]

Raised(err) == [etl EXCEPT !.err = err]

\* lines 6-40: the imports of the script, which load retailer_walmart and
\* retailer_ebay and with them their own imports from silver_utils
ImportModules ==
    /\ etl.at = 0
    /\ etl.err = "none"
    /\ etl' = IF (EtlImports \cup WalmartImports \cup EbayImports)
                     \subseteq etl.silver_utils
              THEN [etl EXCEPT !.at = 1]
              ELSE Raised("ImportError")
    /\ EtlStep

\* lines 77-78: run_pull_and_write_raw raises when no row was parsed, else
\* writes the rows as the newest raw blob of the retailer
PullRaw ==
    /\ AtStmt("pull")
    /\ etl' = IF etl.parsed[Stmt[2]] = 0
              THEN Raised("RuntimeError")
              ELSE Ran([etl EXCEPT !.raw[Stmt[2]] = etl.parsed[Stmt[2]]])
    /\ EtlStep

\* lines 82-83: read_raw_latest, an empty frame when there is no raw blob
ReadRaw ==
    /\ AtStmt("read")
    /\ etl' = Ran([etl EXCEPT !.df_raw[Stmt[2]] = etl.raw[Stmt[2]]])
    /\ EtlStep

\* lines 85-86 and 98-99: assert_nonempty (lines 67-69)
AssertNonempty ==
    /\ AtStmt("assert_raw") \/ AtStmt("assert_pre")
    /\ LET df == IF Stmt[1] = "assert_raw" THEN etl.df_raw ELSE etl.df_pre
       IN  etl' = IF df[Stmt[2]] = 0
                  THEN Raised("RuntimeError")
                  ELSE [etl EXCEPT !.at = @ + 1]
    /\ EtlStep

\* lines 95-96: normalize_walmart, normalize_ebay
NormalizeRaw ==
    /\ AtStmt("normalize")
    /\ etl' = Ran([etl EXCEPT !.df_pre[Stmt[2]] = etl.df_raw[Stmt[2]]])
    /\ EtlStep

\* lines 102-111: upsert_to_silver(df, retailer_id=..., table=..., ...); a
\* keyword that is no parameter raises TypeError before the body runs
UpsertView ==
    /\ AtStmt("upsert")
    /\ etl' = IF UpsertKeywords \subseteq UpsertParams
              THEN Ran([etl EXCEPT !.written = @ \cup {Stmt[2]}])
              ELSE Raised("TypeError")
    /\ EtlStep

NextEtl ==
    \/ ImportModules
    \/ PullRaw
    \/ ReadRaw
    \/ AssertNonempty
    \/ NormalizeRaw
    \/ UpsertView

SpecEtl == InitEtl /\ [][NextEtl]_vars

\* the stage statements of main in the order pull, read, normalize, upsert
StagesInOrder ==
    << <<"pull", "walmart">>, <<"pull", "ebay">>,
       <<"read", "walmart">>, <<"read", "ebay">>,
       <<"normalize", "walmart">>, <<"normalize", "ebay">>,
       <<"upsert", "walmart">>, <<"upsert", "ebay">> >>

\* the run ended: an exception left main, or main ran past its last statement
EtlEnded == etl.err # "none" \/ etl.at > Len(MainBody)

\* C27: a run of the script in which both raw pulls parse at least one row
\* ends with the stages run in the order pull raw, read raw, normalize,
\* upsert, and with the current view written for 'walmart' and for 'ebay'.
C27_StagesInOrder ==
    (EtlEnded /\ \A r \in Retailers : etl.parsed[r] > 0) =>
        /\ etl.ran = StagesInOrder
        /\ etl.written = {"walmart", "ebay"}

====
